---- MODULE Spec2Model ----
(***************************************************************************)
(* Model of the indexing pipeline (agents/index_pipeline, and its older    *)
(* copy agents/rag_agent/indexer_workers) and of the RAG sandbox session   *)
(* client (agents/slackbot/core/clients/rag_client.py, and its older copy  *)
(* agents/slackbot/services/rag_client.py).                                *)
(*                                                                         *)
(* SpecPipeline : IndexPipeline.reindex, EmbedWorker.embed, finalize_index *)
(* SpecClient   : RagClient.query and the sandbox it talks to              *)
(***************************************************************************)
EXTENDS Integers, Sequences, FiniteSets, TLC

\* ---------------------------------------------------------------- bounds
MaxDocs == 3        \* document names are 1..MaxDocs (sorted order = numeric order)
MaxFp == 2          \* distinct (mtime_ns, size) stats a document goes through
N_WORKERS == 2      \* config N_WORKERS (10 in config.py), scaled down
MaxContainers == 1  \* EmbedWorker containers the inputs are routed to
MaxCallers == 2     \* threads calling IndexPipeline.reindex
MaxCalls == 2       \* reindex calls made in one behaviour

WORKERS_PER_GPU == 4

Docs == 1..MaxDocs
Fps == 0..MaxFp                   \* 0: no such file / no manifest entry
WorkerIds == 0..(N_WORKERS - 1)
Containers == 1..MaxContainers
Callers == 1..MaxCallers

VARIABLES
  \* ---- the volume
  docsDir,       \* /data/rag/docs exists
  docs,          \* [Docs -> Fps]: stat of each file of the directory (0: absent)
  manifestFile,  \* manifest.json: [state: absent|ok|corrupt, map: [Docs -> Fps]]
  workerFile,    \* manifest-worker-{id}.json, [WorkerIds -> [Docs -> Fps]] (all 0: no file)
  coll,          \* the ChromaDB collection: [exists, chunks]
  \* ---- IndexPipeline
  lock,          \* IndexPipeline._lock: 0 or the caller holding it
  pc,            \* [Callers -> position inside reindex]
  force,         \* [Callers -> BOOLEAN] argument force
  files,         \* [Callers -> Seq(Docs)] result of _scan
  embedTotal,    \* [Callers -> Nat] total of _embed
  result,        \* [Callers -> record] value returned (or raised) by reindex
  status,        \* [Callers -> Seq(message)] what the run passed to on_status
  \* ---- EmbedWorker
  inv,           \* [Callers -> [WorkerIds -> invocation of embed]]
  inst,          \* [Containers -> [wm, path]]: _worker_manifest, _worker_manifest_path
  \* ---- bookkeeping of the runs
  calls,         \* number of reindex calls made
  changed,       \* [Callers -> BOOLEAN] a document changed since this run's scan
  prev           \* the run that returned last: [valid: every batch succeeded and no
                 \* document changed since its scan, forced]

pvars == <<docsDir, docs, manifestFile, workerFile, coll, lock, pc, force,
           files, embedTotal, result, status, inv, inst, calls, changed, prev>>

\* ---------------------------------------------- bounds, RAG sandbox client
MaxSandboxes == 2   \* sandboxes ever created under the name
MaxQueries == 2     \* RagClient.query calls made in one behaviour
MaxThreads == 2     \* threads calling RagClient.query
MaxLines == 1       \* text lines a process prints before a sentinel

Sandboxes == 1..MaxSandboxes
Threads == 1..MaxThreads

VARIABLES
  impl,          \* "core": slackbot/core/clients/rag_client.py, "services": the older copy
  \* ---- the sandboxes (server processes) and Modal's name registry
  sbState,       \* [Sandboxes -> unborn | booting | ready | dead]
  sbOut,         \* [Sandboxes -> Seq(line)]: stdout lines not read yet
  sbIn,          \* [Sandboxes -> Seq(request)]: stdin lines not handled yet
  sbBurst,       \* [Sandboxes -> Nat]: text lines printed since the last sentinel
  sbErr,         \* [Sandboxes -> 0..1]: 1 when the process left a traceback on stderr
  nameOwner,     \* the sandbox create() finds under SANDBOX_NAME (0: none)
  registry,      \* the sandbox from_name() returns (0: NotFoundError)
  \* ---- RagClient
  cSandbox,      \* self._sandbox (0: None)
  cStdout,       \* self._stdout: the sandbox whose stdout it iterates (0: None)
  cLock,         \* self._lock: 0 or the thread holding it
  tpc,           \* [Threads -> position inside query]
  attempt,       \* [Threads -> 0..1]: the loop variable of query
  req,           \* [Threads -> request id of the message]
  reply,         \* [Threads -> Seq(line)]: `lines` of _read_response
  sentinel,      \* [Threads -> BOOLEAN]: _read_response left its loop by the sentinel
  tErr,          \* [Threads -> the exception in flight]
  \* ---- bookkeeping
  via,           \* [Threads -> which call of the attach path ran last: ensure | recover]
  attachSaw,     \* [Threads -> what from_name handed to it: notfound | dead | live]
  fails,         \* [Threads -> failures met by this query call]
  queries,       \* number of query calls made
  observedDead,  \* sandboxes the registry handed out when they had terminated
  initFailed,    \* sandboxes booted by the client that never printed the start-up sentinel
  written,       \* sandboxes a request was written to
  created        \* sandboxes created by this client

cvars == <<impl, sbState, sbOut, sbIn, sbBurst, sbErr, nameOwner, registry, cSandbox,
           cStdout, cLock, tpc, attempt, req, reply, sentinel, tErr, via, attachSaw,
           fails, queries, observedDead, initFailed, written, created>>

\* ------------------------------------- bounds, functions checked on their own
MaxDiffFp == 3      \* distinct fingerprints in the manifests handed to diff

MaxParts == 3       \* partial-manifest files found by one merge
MaxText == 8        \* length of a reply text, in tokens
MaxMsg == 3         \* length of a request message, in tokens

DiffFps == 0..MaxDiffFp           \* 0: the name is absent from the manifest
Parts == 1..MaxParts
\* a reply text is a sequence of tokens: "O" the literal [OUTPUT_FILE: , "C" the
\* character ] , "N" a newline (the only whitespace), "a" any other character
Tokens == {"O", "C", "N", "a"}
\* a request message is a sequence of tokens: the command words (REINDEX: the word
\* in upper case), " " a blank, "x" any other text
MsgTokens == {"reload", "reindex", "REINDEX", "--force", "status", "clear", " ", "x"}

VARIABLES
  \* ---- Indexer.build (rag_agent/rag/indexer)
  dOld,          \* [Docs -> DiffFps]: self.manifest.load()
  dCur,          \* [Docs -> DiffFps]: self.manifest.scan()
  dForce,        \* argument force
  dOut,          \* [st, old, to_add, to_delete]: what build handed to and got from diff
  \* ---- _merge_worker_manifests on its own
  mBase,         \* [Docs -> Fps]: the canonical manifest it loads
  mParts,        \* [Parts -> [Docs -> Fps]]: the partial-manifest files
  mOrder,        \* the order in which the files are overlaid
  mOut,          \* [st, map]: the merged manifest
  \* ---- the parsing of a reply at the end of _read_response
  rText,         \* Seq(Tokens): "\n".join(lines)
  rOut,          \* [st, files, text]: RagResponse(text=display_text, output_files=...)
  \* ---- MessageHandler._handle
  hMsg,          \* Seq(MsgTokens): user_msg
  hOut           \* [cmd, force]: the command it dispatched to

fvars == <<dOld, dCur, dForce, dOut, mBase, mParts, mOrder, mOut, rText, rOut,
           hMsg, hOut>>

\* ------------------------- bounds, batching and the guards of one EmbedWorker
MaxTotal == 10      \* length of the document list handed to _make_batches
MaxN == 6           \* worker count handed to the Embed Phase
MaxUpserts == 2     \* UPSERT_BATCH slices of the nodes of one _chunk_embed_upsert call

Slots == 1..WORKERS_PER_GPU       \* the concurrent inputs of one container

VARIABLES
  \* ---- IndexPipeline._make_batches / EmbedPhase.run on their own
  bFiles,        \* Seq(Nat): files
  bN,            \* N_WORKERS / self._n_workers
  bOut,          \* [st, batches, ids]: (batches, worker_ids)
  \* ---- one EmbedWorker instance and its concurrent _chunk_embed_upsert calls
  gpuLock,       \* self._gpu_lock: 0 or the slot holding it
  chromaLock,    \* self._chroma_lock: 0 or the slot holding it
  slotPc,        \* [Slots -> position inside _chunk_embed_upsert]
  slotLeft       \* [Slots -> slices still to upsert]

gvars == <<bFiles, bN, bOut, gpuLock, chromaLock, slotPc, slotLeft>>

\* ------------------------------------- bounds, the serving process's stdin loop
MaxIn == 3          \* lines written to the serving process's stdin
MaxOut == 1         \* lines a handler prints for one request

VARIABLES
  \* ---- rag_agent.server: main() and MessageHandler.run()
  vIn,           \* Seq(LineKinds): the lines of sys.stdin
  vPos,          \* number of lines the loop has read
  vOut,          \* Seq([rq, end]): sys.stdout, each line tagged with its request
  vPc            \* "off" | "start" | "loop" | "eof"

svars == <<vIn, vPos, vOut, vPc>>
\* ----------------------------- bounds, the router's threads and the two locks
MaxRouted == 3      \* Slack handler threads inside MessageRouter.route at once

Routed == 1..MaxRouted

VARIABLES
  \* ---- MessageRouter threads calling IndexPipeline.reindex and RagClient.query
  rtPc,          \* [Routed -> position of the thread]
  ipLock,        \* IndexPipeline._lock: 0 or the thread holding it
  rcLock         \* RagClient._lock: 0 or the thread holding it

lvars == <<rtPc, ipLock, rcLock>>

VARIABLES
  \* ---- Indexer.build on its directory, manifest file and collection
  xDir,          \* [Docs -> 0..MaxFp]: what Manifest.scan() finds, 0 = no such file
  xManifest,     \* [Docs -> 0..MaxFp]: the persisted manifest
  xStore,        \* set of <<name, fingerprint>>: sources with chunks in the collection
  xRet           \* "none" | "returned" | "raised": how the last build call ended

ivars == <<xDir, xManifest, xStore, xRet>>

\* --------------------------------------------- bounds, parsing one archive
MaxEntries == 6     \* entries of the archive
MaxZipBatch == 2    \* ZIP_BATCH_SIZE / EMBED_BATCH_SIZE

VARIABLES
  \* ---- DocumentParser._parse_zip / EmbedWorker._process_zip on one archive
  zEntries,      \* Seq(EntryKinds): zf.namelist(), each name with what reading it gives
  zN,            \* the batch size
  zOut           \* [st, batches]: the batches yielded, each a Seq of entry positions

zvars == <<zEntries, zN, zOut>>
xvars == <<svars, lvars, ivars, zvars>>

vars == <<pvars, cvars, fvars, gvars, xvars>>


\* ------------------------------------------------------------- helpers
Empty == [d \in Docs |-> 0]
Keys(m) == {d \in Docs : m[d] # 0}
Min(S) == CHOOSE x \in S : \A y \in S : x <= y
Ceil(a, b) == (a + b - 1) \div b

RECURSIVE SortedSeq(_)
SortedSeq(S) == IF S = {} THEN <<>> ELSE <<Min(S)>> \o SortedSeq(S \ {Min(S)})

RECURSIVE SumOver(_, _)
SumOver(S, f) == IF S = {} THEN 0
                 ELSE LET x == CHOOSE y \in S : TRUE IN f[x] + SumOver(S \ {x}, f)

\* ------------------------------------------------------------ the volume
NoManifest == [state |-> "absent", map |-> Empty]

\* f"{stat.st_mtime_ns}:{stat.st_size}": one string per distinct stat
Fingerprint(d) == docs[d]

\* json.loads(_MANIFEST_PATH.read_text()), {} on any exception
\* a load that trusts whatever the file holds
BadLoadManifest == manifestFile.map
LoadManifest == IF manifestFile.state = "ok" THEN manifestFile.map ELSE Empty

\* number of chunks the splitter yields for a version of a document
ChunkCount(d, v) == IF v = 0 THEN 0 ELSE 1 + ((d + v) % 2)
\* node ids: a function of source, content and position
ChunkIds(d, v, n) == {<<d, v, k>> : k \in 1..n}

CollectionCount == IF coll.exists THEN Cardinality(coll.chunks) ELSE 0

Upsert(c, ids) == [exists |-> TRUE, chunks |-> c.chunks \cup ids]

\* -------------------------------------------------------------- _scan
PresentDocs == IF docsDir THEN {d \in Docs : docs[d] # 0} ELSE {}

\* a scan that takes only the files with no entry
BadScanSet(f) == {d \in PresentDocs : f \/ LoadManifest[d] = 0}
ScanSet(f) == {d \in PresentDocs : f \/ LoadManifest[d] # Fingerprint(d)}
ScanFiles(f) == SortedSeq(ScanSet(f))

\* an empty-result check that only asks whether the directory exists
BadEmptyResult ==
  IF docsDir
  THEN [kind |-> "already_indexed", chunks |-> 0, files |-> 0]
  ELSE [kind |-> "no_documents", chunks |-> 0, files |-> 0]
EmptyResult ==
  IF ~docsDir THEN [kind |-> "no_documents", chunks |-> 0, files |-> 0]
  ELSE IF \E d \in PresentDocs : LoadManifest[d] # 0
       THEN [kind |-> "already_indexed", chunks |-> 0, files |-> 0]
       ELSE [kind |-> "no_documents", chunks |-> 0, files |-> 0]

\* ------------------------------------------------------- _make_batches
ChunkSize(fs) == Ceil(Len(fs), N_WORKERS)
NumBatches(fs) == IF Len(fs) = 0 THEN 0 ELSE Ceil(Len(fs), ChunkSize(fs))
Batch(fs, w) ==
  LET lo == w * ChunkSize(fs) + 1
      hi == IF (w + 1) * ChunkSize(fs) < Len(fs) THEN (w + 1) * ChunkSize(fs) ELSE Len(fs)
  IN SubSeq(fs, lo, hi)
BatchIds(fs) == 0..(NumBatches(fs) - 1)

\* ---------------------------------------------------------- invocations
NoInv == [st |-> "none", i |-> 0, k |-> 1, total |-> 0]
NoInvs == [w \in WorkerIds |-> NoInv]
\* a map that yields before its inputs are done
BadFinished(c) == TRUE
Finished(c) == \A w \in WorkerIds : inv[c][w].st \in {"none", "done", "failed"}
Succeeded(c) == \A w \in WorkerIds : inv[c][w].st \in {"none", "done"}
Running(k) == {cw \in Callers \X WorkerIds :
                 /\ inv[cw[1]][cw[2]].st \in {"l64", "proc", "upd"}
                 /\ inv[cw[1]][cw[2]].k = k}

InRun == {"scan", "embed", "map", "finalize", "reload", "return"}
NoResult == [kind |-> "none", chunks |-> 0, files |-> 0]
\* a text handed to on_status: its kind and the numbers it shows
Msg(k, w, n, t) == [kind |-> k, wid |-> w, count |-> n, total |-> t]
NoPrev == [valid |-> FALSE, forced |-> FALSE]

\* no run in progress, no partial manifest, no collection
PipelineIdle ==
  /\ workerFile = [w \in WorkerIds |-> Empty]
  /\ coll = [exists |-> FALSE, chunks |-> {}]
  /\ lock = 0
  /\ pc = [c \in Callers |-> "idle"]
  /\ force = [c \in Callers |-> FALSE]
  /\ files = [c \in Callers |-> <<>>]
  /\ embedTotal = [c \in Callers |-> 0]
  /\ result = [c \in Callers |-> NoResult]
  /\ status = [c \in Callers |-> <<>>]
  /\ inv = [c \in Callers |-> NoInvs]
  /\ inst = [k \in Containers |-> [wm |-> Empty, path |-> 0]]
  /\ calls = 0
  /\ changed = [c \in Callers |-> FALSE]
  /\ prev = NoPrev

\* nothing on the volume yet
VolumeInit ==
  /\ docsDir = FALSE
  /\ docs = Empty
  /\ manifestFile = NoManifest

PInit ==
  /\ VolumeInit
  /\ PipelineIdle

\* ------------------------------------------------ the document directory
MkDir ==
  /\ ~docsDir
  /\ docsDir' = TRUE
  /\ UNCHANGED <<docs, manifestFile, workerFile, coll, lock, pc, force,
                 files, embedTotal, result, inv, inst, calls, changed, prev>>
  /\ UNCHANGED status
  /\ UNCHANGED <<cvars, fvars, gvars, xvars>>

\* a file is shared or rewritten: it gets a stat it never had
TouchDoc(d) ==
  /\ docsDir
  /\ docs[d] < MaxFp
  /\ docs' = [docs EXCEPT ![d] = @ + 1]
  /\ changed' = [c \in Callers |-> changed[c] \/ pc[c] \in InRun]
  /\ prev' = [prev EXCEPT !.valid = FALSE]
  /\ UNCHANGED <<docsDir, manifestFile, workerFile, coll, lock, pc, force,
                 files, embedTotal, result, inv, inst, calls>>
  /\ UNCHANGED status
  /\ UNCHANGED <<cvars, fvars, gvars, xvars>>

\* ------------------------------------------------ IndexPipeline.reindex
Call(c, f) ==
  /\ pc[c] = "idle"
  /\ \A b \in Callers : b < c => pc[b] # "idle"   \* callers are interchangeable
  /\ calls < MaxCalls
  /\ calls' = calls + 1
  /\ pc' = [pc EXCEPT ![c] = "acquire"]
  /\ force' = [force EXCEPT ![c] = f]
  /\ result' = [result EXCEPT ![c] = NoResult]
  /\ UNCHANGED <<docsDir, docs, manifestFile, workerFile, coll, lock, files,
                 embedTotal, inv, inst, changed, prev>>
  /\ status' = [status EXCEPT ![c] = <<>>]
  /\ UNCHANGED <<cvars, fvars, gvars, xvars>>

\* a lock that never blocks
BadLockFree == TRUE
\* with self._lock:
LockFree == lock = 0

Acquire(c) ==
  /\ pc[c] = "acquire"
  /\ LockFree
  /\ lock' = c
  /\ pc' = [pc EXCEPT ![c] = "scan"]
  /\ changed' = [changed EXCEPT ![c] = FALSE]
  /\ UNCHANGED <<docsDir, docs, manifestFile, workerFile, coll, force,
                 files, embedTotal, result, inv, inst, calls, prev>>
  /\ UNCHANGED status
  /\ UNCHANGED <<cvars, fvars, gvars, xvars>>

\* a test that never takes the short cut
BadNoWork(fs) == FALSE
\* if not files:
NoWork(fs) == fs = <<>>

\* files = self._scan(force, _status); if not files: return self._empty_result()
Scan(c) ==
  /\ pc[c] = "scan"
  /\ files' = [files EXCEPT ![c] = ScanFiles(force[c])]
  /\ inv' = [inv EXCEPT ![c] = NoInvs]
  /\ embedTotal' = [embedTotal EXCEPT ![c] = 0]
  /\ IF NoWork(ScanFiles(force[c]))
     THEN /\ pc' = [pc EXCEPT ![c] = "return"]
          /\ result' = [result EXCEPT ![c] = EmptyResult]
     ELSE /\ pc' = [pc EXCEPT ![c] = "embed"]
          /\ UNCHANGED result
  /\ UNCHANGED <<docsDir, docs, manifestFile, workerFile, coll, lock, force,
                 inst, calls, changed, prev>>
  /\ status' = [status EXCEPT ![c] = Append(@, Msg("scanning", 0, 0, 0))]
  /\ UNCHANGED <<cvars, fvars, gvars, xvars>>

\* _embed: EmbedWorker().embed.map(batches, worker_ids, return_exceptions=True)
Dispatch(c) ==
  /\ pc[c] = "embed"
  /\ inv' = [inv EXCEPT ![c] = [w \in WorkerIds |->
               IF w \in BatchIds(files[c]) THEN [NoInv EXCEPT !.st = "queued"] ELSE NoInv]]
  /\ pc' = [pc EXCEPT ![c] = "map"]
  /\ UNCHANGED <<docsDir, docs, manifestFile, workerFile, coll, lock, force,
                 files, embedTotal, result, inst, calls, changed, prev>>
  /\ status' = [status EXCEPT ![c] = Append(@, Msg("embedding", 0, Len(files[c]), 0))]
  /\ UNCHANGED <<cvars, fvars, gvars, xvars>>

\* ----------------------------------------------------- EmbedWorker.embed
CurDoc(c, w) == Batch(files[c], w)[inv[c][w].i]

\* an input is routed to a container with a free slot; line 63:
\* self._worker_manifest = {}
InvStart(c, w, k) ==
  /\ inv[c][w].st = "queued"
  /\ Cardinality(Running(k)) < WORKERS_PER_GPU
  /\ inst' = [inst EXCEPT ![k].wm = Empty]
  /\ inv' = [inv EXCEPT ![c][w] = [@ EXCEPT !.st = "l64", !.k = k]]
  /\ UNCHANGED <<docsDir, docs, manifestFile, workerFile, coll, lock, pc, force,
                 files, embedTotal, result, calls, changed, prev>>
  /\ UNCHANGED status
  /\ UNCHANGED <<cvars, fvars, gvars, xvars>>

\* line 64: self._worker_manifest_path = _CHROMA_DIR / f"manifest-worker-{worker_id}.json"
InvSetPath(c, w) ==
  /\ inv[c][w].st = "l64"
  /\ inst' = [inst EXCEPT ![inv[c][w].k].path = w]
  /\ inv' = [inv EXCEPT ![c][w] = [@ EXCEPT !.st = "proc", !.i = 1]]
  /\ UNCHANGED <<docsDir, docs, manifestFile, workerFile, coll, lock, pc, force,
                 files, embedTotal, result, calls, changed, prev>>
  /\ UNCHANGED status
  /\ UNCHANGED <<cvars, fvars, gvars, xvars>>

\* lines 68-75: parse, chunk, embed and upsert one file
InvProcess(c, w) ==
  /\ inv[c][w].st = "proc"
  /\ LET d == CurDoc(c, w)
         n == ChunkCount(d, docs[d])
     IN /\ coll' = Upsert(coll, ChunkIds(d, docs[d], n))
        /\ inv' = [inv EXCEPT ![c][w] = [@ EXCEPT !.st = "upd", !.total = @ + n]]
  /\ UNCHANGED <<docsDir, docs, manifestFile, workerFile, lock, pc, force,
                 files, embedTotal, result, inst, calls, changed, prev>>
  /\ UNCHANGED status
  /\ UNCHANGED <<cvars, fvars, gvars, xvars>>

\* a failure after which the loop goes on to _update_manifest
BadFailNext == "upd"
\* an exception in lines 68-75 leaves the for loop and embed(): line 76 is not reached
FailNext == "failed"
\* the same lines raising, after n of the file's chunks were upserted
InvFail(c, w, n) ==
  /\ inv[c][w].st = "proc"
  /\ LET d == CurDoc(c, w)
     IN /\ n < ChunkCount(d, docs[d])
        /\ coll' = IF n = 0 THEN coll ELSE Upsert(coll, ChunkIds(d, docs[d], n))
  /\ inv' = [inv EXCEPT ![c][w] = [@ EXCEPT !.st = FailNext]]
  /\ UNCHANGED <<docsDir, docs, manifestFile, workerFile, lock, pc, force,
                 files, embedTotal, result, inst, calls, changed, prev>>
  /\ UNCHANGED status
  /\ UNCHANGED <<cvars, fvars, gvars, xvars>>

\* _update_manifest, under self._manifest_lock:
\*   self._worker_manifest[path.name] = fingerprint
\*   self._worker_manifest_path.write_text(json.dumps(self._worker_manifest))
InvUpdate(c, w) ==
  /\ inv[c][w].st = "upd"
  /\ LET d == CurDoc(c, w)
         k == inv[c][w].k
         wm == [inst[k].wm EXCEPT ![d] = Fingerprint(d)]
     IN /\ inst' = [inst EXCEPT ![k].wm = wm]
        /\ workerFile' = [workerFile EXCEPT ![inst[k].path] = wm]
  /\ inv' = [inv EXCEPT ![c][w] =
               IF inv[c][w].i < Len(Batch(files[c], w))
               THEN [@ EXCEPT !.st = "proc", !.i = @ + 1]
               ELSE [@ EXCEPT !.st = "done"]]
  /\ UNCHANGED <<docsDir, docs, manifestFile, coll, lock, pc, force,
                 files, embedTotal, result, calls, changed, prev>>
  /\ UNCHANGED status
  /\ UNCHANGED <<cvars, fvars, gvars, xvars>>

\* _embed, lines 83-89: the results come in the order of the inputs; a result that
\* is an exception is printed, a normal one adds to total and is reported
RECURSIVE WorkerDone(_, _, _)
WorkerDone(c, w, total) ==
  IF w >= N_WORKERS THEN <<>>
  ELSE IF inv[c][w].st = "done"
       THEN <<Msg("worker_done", w, inv[c][w].total, total + inv[c][w].total)>>
            \o WorkerDone(c, w + 1, total + inv[c][w].total)
       ELSE WorkerDone(c, w + 1, total)

\* _embed, lines 82-90: the map has yielded every result; total of the successes
\* a total that also counts what the failed batches had embedded
BadEmbedTotal(c) ==
  SumOver({w \in WorkerIds : inv[c][w].st \in {"done", "failed"}},
          [w \in WorkerIds |-> inv[c][w].total])
EmbedTotal(c) ==
  SumOver({w \in WorkerIds : inv[c][w].st = "done"}, [w \in WorkerIds |-> inv[c][w].total])

Collect(c) ==
  /\ pc[c] = "map"
  /\ Finished(c)
  /\ embedTotal' = [embedTotal EXCEPT ![c] = EmbedTotal(c)]
  /\ pc' = [pc EXCEPT ![c] = "finalize"]
  /\ UNCHANGED <<docsDir, docs, manifestFile, workerFile, coll, lock, force,
                 files, result, inv, inst, calls, changed, prev>>
  /\ status' = [status EXCEPT ![c] = @ \o WorkerDone(c, 0, 0)]
  /\ UNCHANGED <<cvars, fvars, gvars, xvars>>

\* ---------------------------------------------------------- finalize_index
\* an overlay that replaces the manifest by the partial manifest
BadOverlay(m, wf) == wf
\* manifest.update(json.loads(wf.read_text()))
Overlay(m, wf) == [d \in Docs |-> IF wf[d] # 0 THEN wf[d] ELSE m[d]]

\* a merge that overlays nothing
BadMergeFrom(m, wfs, w) == m
\* for wf in sorted(glob("manifest-worker-*.json")): manifest.update(...); wf.unlink()
RECURSIVE MergeFrom(_, _, _)
MergeFrom(m, wfs, w) ==
  IF w >= N_WORKERS THEN m ELSE MergeFrom(Overlay(m, wfs[w]), wfs, w + 1)

\* _reset_collection: delete_collection; unlink every manifest*.json
ResetManifest(f) == IF f THEN NoManifest ELSE manifestFile
ResetWorkerFiles(f) == IF f THEN [w \in WorkerIds |-> Empty] ELSE workerFile
ResetColl(f) == IF f THEN [exists |-> FALSE, chunks |-> {}] ELSE coll

\* a merge that runs before the reset of a forced run
BadMergedManifest(f) ==
  MergeFrom(IF manifestFile.state = "ok" THEN manifestFile.map ELSE Empty, workerFile, 0)
\* _merge_worker_manifests, after the reset of a forced run
MergedManifest(f) ==
  LET mf == ResetManifest(f)
      base == IF mf.state = "ok" THEN mf.map ELSE Empty
  IN MergeFrom(base, ResetWorkerFiles(f), 0)

Summary(f) ==
  [kind |-> "summary",
   chunks |-> IF ResetColl(f).exists THEN Cardinality(ResetColl(f).chunks) ELSE 0,
   files |-> Cardinality(Keys(MergedManifest(f)))]

\* r: the caller passed a reload_fn
Finalize(c, r) ==
  /\ pc[c] = "finalize"
  /\ coll' = ResetColl(force[c])
  /\ manifestFile' = [state |-> "ok", map |-> MergedManifest(force[c])]
  /\ workerFile' = [w \in WorkerIds |-> Empty]
  /\ result' = [result EXCEPT ![c] = Summary(force[c])]
  /\ pc' = [pc EXCEPT ![c] = IF r THEN "reload" ELSE "return"]
  /\ UNCHANGED <<docsDir, docs, lock, force, files, embedTotal, inv, inst,
                 calls, changed, prev>>
  /\ status' = [status EXCEPT ![c] = Append(@, Msg("writing", 0, 0, 0))]
  /\ UNCHANGED <<cvars, fvars, gvars, xvars>>

\* reload_fn(): returns, or raises out of reindex
Reload(c, ok) ==
  /\ pc[c] = "reload"
  /\ pc' = [pc EXCEPT ![c] = "return"]
  /\ result' = [result EXCEPT ![c] = IF ok THEN @ ELSE [@ EXCEPT !.kind = "raised"]]
  /\ UNCHANGED <<docsDir, docs, manifestFile, workerFile, coll, lock, force,
                 files, embedTotal, inv, inst, calls, changed, prev>>
  /\ status' = [status EXCEPT ![c] = Append(@, Msg("reloading", 0, 0, 0))]
  /\ UNCHANGED <<cvars, fvars, gvars, xvars>>

\* a with block that keeps the lock when it is left by an exception
BadReleased(c) == IF result[c].kind = "raised" \/ lock # c THEN lock ELSE 0
\* with self._lock: __exit__ releases on return and on exception alike
Released(c) == IF lock = c THEN 0 ELSE lock

\* leaving the with block, by return or by exception
Return(c) ==
  /\ pc[c] = "return"
  /\ lock' = Released(c)
  /\ pc' = [pc EXCEPT ![c] = "idle"]
  /\ prev' = [valid |-> Succeeded(c) /\ ~changed[c] /\ result[c].kind # "raised",
              forced |-> force[c]]
  /\ force' = [force EXCEPT ![c] = FALSE]
  /\ files' = [files EXCEPT ![c] = <<>>]
  /\ embedTotal' = [embedTotal EXCEPT ![c] = 0]
  /\ result' = [result EXCEPT ![c] = NoResult]
  /\ inv' = [inv EXCEPT ![c] = NoInvs]
  /\ changed' = [changed EXCEPT ![c] = FALSE]
  /\ UNCHANGED <<docsDir, docs, manifestFile, workerFile, coll, inst, calls>>
  /\ status' = [status EXCEPT ![c] = <<>>]
  /\ UNCHANGED <<cvars, fvars, gvars, xvars>>

\* an exception inside a phase: self._volume.reload() or a stat of _scan raising
ScanRaise(c) ==
  /\ pc[c] = "scan"
  /\ pc' = [pc EXCEPT ![c] = "return"]
  /\ result' = [result EXCEPT ![c] = [NoResult EXCEPT !.kind = "raised"]]
  /\ status' = [status EXCEPT ![c] = Append(@, Msg("scanning", 0, 0, 0))]
  /\ files' = [files EXCEPT ![c] = <<>>]
  /\ inv' = [inv EXCEPT ![c] = NoInvs]
  /\ embedTotal' = [embedTotal EXCEPT ![c] = 0]
  /\ UNCHANGED <<docsDir, docs, manifestFile, workerFile, coll, lock, force,
                 inst, calls, changed, prev>>
  /\ UNCHANGED <<cvars, fvars, gvars, xvars>>

\* finalize_index.remote(force) raising before the function ran
FinalizeRaise(c) ==
  /\ pc[c] = "finalize"
  /\ pc' = [pc EXCEPT ![c] = "return"]
  /\ result' = [result EXCEPT ![c] = [NoResult EXCEPT !.kind = "raised"]]
  /\ status' = [status EXCEPT ![c] = Append(@, Msg("writing", 0, 0, 0))]
  /\ UNCHANGED <<docsDir, docs, manifestFile, workerFile, coll, lock, force,
                 files, embedTotal, inv, inst, calls, changed, prev>>
  /\ UNCHANGED <<cvars, fvars, gvars, xvars>>

PNext ==
  \/ MkDir
  \/ \E d \in Docs : TouchDoc(d)
  \/ \E c \in Callers, f \in BOOLEAN : Call(c, f)
  \/ \E c \in Callers : Acquire(c)
  \/ \E c \in Callers : Scan(c)
  \/ \E c \in Callers : Dispatch(c)
  \/ \E c \in Callers, w \in WorkerIds, k \in Containers : InvStart(c, w, k)
  \/ \E c \in Callers, w \in WorkerIds : InvSetPath(c, w)
  \/ \E c \in Callers, w \in WorkerIds : InvProcess(c, w)
  \/ \E c \in Callers, w \in WorkerIds, n \in 0..1 : InvFail(c, w, n)
  \/ \E c \in Callers, w \in WorkerIds : InvUpdate(c, w)
  \/ \E c \in Callers : Collect(c)
  \/ \E c \in Callers, r \in BOOLEAN : Finalize(c, r)
  \/ \E c \in Callers, ok \in BOOLEAN : Reload(c, ok)
  \/ \E c \in Callers : Return(c)

\* ======================================================= RAG sandbox client
Line(r, t, e) == [rq |-> r, txt |-> t, end |-> e]
NoErr == [kind |-> "none", stderr |-> 0, read |-> TRUE, of |-> 0]

CInit ==
  /\ impl \in {"core", "services"}
  /\ sbState = [s \in Sandboxes |-> "unborn"]
  /\ sbOut = [s \in Sandboxes |-> <<>>]
  /\ sbIn = [s \in Sandboxes |-> <<>>]
  /\ sbBurst = [s \in Sandboxes |-> 0]
  /\ sbErr = [s \in Sandboxes |-> 0]
  /\ nameOwner = 0
  /\ registry = 0
  /\ cSandbox = 0
  /\ cStdout = 0
  /\ cLock = 0
  /\ tpc = [t \in Threads |-> "idle"]
  /\ attempt = [t \in Threads |-> 0]
  /\ req = [t \in Threads |-> 0]
  /\ reply = [t \in Threads |-> <<>>]
  /\ sentinel = [t \in Threads |-> FALSE]
  /\ tErr = [t \in Threads |-> NoErr]
  /\ via = [t \in Threads |-> "none"]
  /\ attachSaw = [t \in Threads |-> "none"]
  /\ fails = [t \in Threads |-> 0]
  /\ queries = 0
  /\ observedDead = {}
  /\ initFailed = {}
  /\ written = {}
  /\ created = {}

sbvars == <<sbState, sbOut, sbIn, sbBurst, sbErr>>
regvars == <<nameOwner, registry>>
clvars == <<cSandbox, cStdout, cLock>>
thvars == <<tpc, attempt, req, reply, sentinel, tErr, via, attachSaw, fails>>
histvars == <<queries, observedDead, initFailed, written, created>>

\* ------------------------------------------------- the server process
Unborn == {s \in Sandboxes : sbState[s] = "unborn"}
Alive(s) == sbState[s] \in {"booting", "ready"}

\* ServiceContainer() loading the models prints to stdout
SbStartupLine(s) ==
  /\ sbState[s] = "booting"
  /\ sbBurst[s] < MaxLines
  /\ sbOut' = [sbOut EXCEPT ![s] = Append(@, Line(0, TRUE, FALSE))]
  /\ sbBurst' = [sbBurst EXCEPT ![s] = @ + 1]
  /\ UNCHANGED <<impl, sbState, sbIn, sbErr, regvars, clvars, thvars, histvars>>
  /\ UNCHANGED <<pvars, fvars, gvars, xvars>>

\* main: print(END_TURN) once the container is built, then MessageHandler.run()
SbReady(s) ==
  /\ sbState[s] = "booting"
  /\ sbState' = [sbState EXCEPT ![s] = "ready"]
  /\ sbOut' = [sbOut EXCEPT ![s] = Append(@, Line(0, FALSE, TRUE))]
  /\ sbBurst' = [sbBurst EXCEPT ![s] = 0]
  /\ UNCHANGED <<impl, sbIn, sbErr, regvars, clvars, thvars, histvars>>
  /\ UNCHANGED <<pvars, fvars, gvars, xvars>>

\* MessageHandler.run handling the request at the head of stdin: output of _handle
SbOutput(s) ==
  /\ sbState[s] = "ready"
  /\ sbIn[s] # <<>>
  /\ sbBurst[s] < MaxLines
  /\ sbOut' = [sbOut EXCEPT ![s] = Append(@, Line(Head(sbIn[s]), TRUE, FALSE))]
  /\ sbBurst' = [sbBurst EXCEPT ![s] = @ + 1]
  /\ UNCHANGED <<impl, sbState, sbIn, sbErr, regvars, clvars, thvars, histvars>>
  /\ UNCHANGED <<pvars, fvars, gvars, xvars>>

\* MessageHandler.run: print(END_TURN) after the request; x: the output before it
\* did not end its line
SbEndTurn(s, x) ==
  /\ sbState[s] = "ready"
  /\ sbIn[s] # <<>>
  /\ sbOut' = [sbOut EXCEPT ![s] = Append(@, Line(Head(sbIn[s]), x, TRUE))]
  /\ sbIn' = [sbIn EXCEPT ![s] = Tail(@)]
  /\ sbBurst' = [sbBurst EXCEPT ![s] = 0]
  /\ UNCHANGED <<impl, sbState, sbErr, regvars, clvars, thvars, histvars>>
  /\ UNCHANGED <<pvars, fvars, gvars, xvars>>

\* the process crashes, or the sandbox reaches its timeout or idle_timeout
SbExit(s) ==
  /\ Alive(s)
  /\ sbState' = [sbState EXCEPT ![s] = "dead"]
  /\ sbErr' = [sbErr EXCEPT ![s] = 1]
  /\ UNCHANGED <<impl, sbOut, sbIn, sbBurst, regvars, clvars, thvars, histvars>>
  /\ UNCHANGED <<pvars, fvars, gvars, xvars>>

\* ------------------------------------------------- Modal's name registry
\* from_name stops returning a terminated sandbox
RegistryForget ==
  /\ registry # 0
  /\ sbState[registry] = "dead"
  /\ registry' = 0
  /\ UNCHANGED <<impl, sbvars, nameOwner, clvars, thvars, histvars>>
  /\ UNCHANGED <<pvars, fvars, gvars, xvars>>

\* create stops finding the name of a terminated sandbox
NameRelease ==
  /\ nameOwner # 0
  /\ sbState[nameOwner] = "dead"
  /\ nameOwner' = 0
  /\ UNCHANGED <<impl, sbvars, registry, clvars, thvars, histvars>>
  /\ UNCHANGED <<pvars, fvars, gvars, xvars>>

\* another client (another bot container) creates the sandbox under the name
OtherCreate ==
  /\ nameOwner = 0
  /\ Unborn # {}
  /\ LET s == Min(Unborn)
     IN /\ sbState' = [sbState EXCEPT ![s] = "booting"]
        /\ nameOwner' = s
        /\ registry' = s
  /\ UNCHANGED <<impl, sbOut, sbIn, sbBurst, sbErr, clvars, thvars, histvars>>
  /\ UNCHANGED <<pvars, fvars, gvars, xvars>>

\* ------------------------------------------------------------ RagClient
\* a poll that reports every sandbox as running
BadPollAlive(s) == TRUE
\* sb.poll() is None
PollAlive(s) == sbState[s] # "dead"

\* sandbox.terminate()
Terminated(s) == IF s = 0 THEN sbState ELSE [sbState EXCEPT ![s] = "dead"]

\* what from_name hands out
Saw == IF registry = 0 THEN "notfound"
       ELSE IF sbState[registry] = "dead" THEN "dead" ELSE "live"
\* _connect_existing returns True (core: found and poll() is None; services: found)
CanAttach == registry # 0 /\ (impl = "core" => PollAlive(registry))
SawDead == IF Saw = "dead" THEN {registry} ELSE {}

\* a lock that never blocks
BadClientLockFree == TRUE
\* with self._lock:
ClientLockFree == cLock = 0

\* where _wait_for_init goes when stdout ends before the sentinel
BadInitEofNext == "write"
\* raise RuntimeError("RAG process closed before init sentinel ...")
InitEofNext == "except"

\* where query goes when _read_response raises: it is outside the try block
ReadRaiseNext == "raised"

Query(t) ==
  /\ tpc[t] = "idle"
  /\ \A b \in Threads : b < t => tpc[b] # "idle"   \* threads are interchangeable
  /\ queries < MaxQueries
  /\ queries' = queries + 1
  /\ req' = [req EXCEPT ![t] = queries + 1]
  /\ tpc' = [tpc EXCEPT ![t] = "lock"]
  /\ UNCHANGED <<impl, sbvars, regvars, clvars, attempt, reply, sentinel, tErr, via,
                 attachSaw, fails, observedDead, initFailed, written, created>>
  /\ UNCHANGED <<pvars, fvars, gvars, xvars>>

CAcquire(t) ==
  /\ tpc[t] = "lock"
  /\ ClientLockFree
  /\ cLock' = t
  /\ attempt' = [attempt EXCEPT ![t] = 0]
  /\ tpc' = [tpc EXCEPT ![t] = "ensure"]
  /\ UNCHANGED <<impl, sbvars, regvars, cSandbox, cStdout, req, reply, sentinel, tErr,
                 via, attachSaw, fails, histvars>>
  /\ UNCHANGED <<pvars, fvars, gvars, xvars>>

\* a test that never finds a handle
BadHandleHeld == FALSE
\* self._sandbox is not None
HandleHeld == cSandbox # 0

\* _ensure_sandbox: return if a sandbox is held, else _connect_existing, else boot
Ensure(t) ==
  /\ tpc[t] = "ensure"
  /\ IF HandleHeld
     THEN /\ tpc' = [tpc EXCEPT ![t] = "write"]
          /\ UNCHANGED <<sbState, cSandbox, cStdout, via, attachSaw, observedDead>>
     ELSE /\ via' = [via EXCEPT ![t] = "ensure"]
          /\ attachSaw' = [attachSaw EXCEPT ![t] = Saw]
          /\ observedDead' = observedDead \cup SawDead
          /\ IF CanAttach
             THEN /\ cSandbox' = registry
                  /\ cStdout' = registry
                  /\ tpc' = [tpc EXCEPT ![t] = "write"]
                  /\ UNCHANGED sbState
             ELSE /\ sbState' = Terminated(registry)
                  /\ tpc' = [tpc EXCEPT ![t] = "boot"]
                  /\ UNCHANGED <<cSandbox, cStdout>>
  /\ UNCHANGED <<impl, sbOut, sbIn, sbBurst, sbErr, regvars, cLock, attempt, req, reply,
                 sentinel, tErr, fails, queries, initFailed, written, created>>
  /\ UNCHANGED <<pvars, fvars, gvars, xvars>>

\* _boot_sandbox: modal.Sandbox.create(..., name=SANDBOX_NAME)
Boot(t) ==
  /\ tpc[t] = "boot"
  /\ nameOwner # 0 \/ Unborn # {}
  /\ IF nameOwner # 0
     THEN \* AlreadyExistsError
          /\ tpc' = [tpc EXCEPT ![t] = "recover"]
          /\ UNCHANGED <<sbState, regvars, cSandbox, cStdout, created>>
     ELSE LET s == Min(Unborn)
          IN /\ sbState' = [sbState EXCEPT ![s] = "booting"]
             /\ nameOwner' = s
             /\ registry' = s
             /\ cSandbox' = s
             /\ cStdout' = s
             /\ created' = created \cup {s}
             /\ tpc' = [tpc EXCEPT ![t] = "init"]
  /\ via' = [via EXCEPT ![t] = "none"]
  /\ attachSaw' = [attachSaw EXCEPT ![t] = "none"]
  /\ UNCHANGED <<impl, sbOut, sbIn, sbBurst, sbErr, cLock, attempt, req, reply, sentinel,
                 tErr, fails, queries, observedDead, initFailed, written>>
  /\ UNCHANGED <<pvars, fvars, gvars, xvars>>

\* except AlreadyExistsError: the attach path once more
\*   core:     if not self._connect_existing(): raise RuntimeError(...)
\*   services: existing = modal.Sandbox.from_name(...)   (NotFoundError propagates)
Recover(t) ==
  /\ tpc[t] = "recover"
  /\ via' = [via EXCEPT ![t] = "recover"]
  /\ attachSaw' = [attachSaw EXCEPT ![t] = Saw]
  /\ observedDead' = observedDead \cup SawDead
  /\ IF CanAttach
     THEN /\ cSandbox' = registry
          /\ cStdout' = registry
          /\ tpc' = [tpc EXCEPT ![t] = "write"]
          /\ UNCHANGED <<sbState, tErr>>
     ELSE /\ sbState' = Terminated(registry)
          /\ tErr' = [tErr EXCEPT ![t] =
                        [NoErr EXCEPT !.kind = IF impl = "core" THEN "exists_not_found"
                                                                ELSE "not_found"]]
          /\ tpc' = [tpc EXCEPT ![t] = "except"]
          /\ UNCHANGED <<cSandbox, cStdout>>
  /\ UNCHANGED <<impl, sbOut, sbIn, sbBurst, sbErr, regvars, cLock, attempt, req, reply,
                 sentinel, fails, queries, initFailed, written, created>>
  /\ UNCHANGED <<pvars, fvars, gvars, xvars>>

\* _wait_for_init: one line of the start-up output
InitRead(t) ==
  /\ tpc[t] = "init"
  /\ sbOut[cStdout] # <<>>
  /\ sbOut' = [sbOut EXCEPT ![cStdout] = Tail(@)]
  /\ tpc' = [tpc EXCEPT ![t] = IF Head(sbOut[cStdout]).end THEN "write" ELSE "init"]
  /\ UNCHANGED <<impl, sbState, sbIn, sbBurst, sbErr, regvars, clvars, attempt, req,
                 reply, sentinel, tErr, via, attachSaw, fails, histvars>>
  /\ UNCHANGED <<pvars, fvars, gvars, xvars>>

\* self._sandbox.stderr.read(), "" when it raises
ReadStderr(s, ok) == IF ok THEN sbErr[s] ELSE 0

\* _wait_for_init: stdout ends before the sentinel
\*   core:     raise RuntimeError(... stderr ...) with the handle still stored
\*   services: forgets the handle (no terminate), then raises
InitEof(t, ok) ==
  /\ tpc[t] = "init"
  /\ sbOut[cStdout] = <<>>
  /\ sbState[cStdout] = "dead"
  /\ initFailed' = initFailed \cup {cSandbox}
  /\ tErr' = [tErr EXCEPT ![t] = [kind |-> "init_closed", stderr |-> ReadStderr(cSandbox, ok),
                                  read |-> ok, of |-> cSandbox]]
  /\ tpc' = [tpc EXCEPT ![t] = InitEofNext]
  /\ IF impl = "core" THEN UNCHANGED <<cSandbox, cStdout>>
                      ELSE cSandbox' = 0 /\ cStdout' = 0
  /\ UNCHANGED <<impl, sbvars, regvars, cLock, attempt, req, reply, sentinel, via,
                 attachSaw, fails, queries, observedDead, written, created>>
  /\ UNCHANGED <<pvars, fvars, gvars, xvars>>

\* _wait_for_init: iterating stdout raises
\*   core:     raise RuntimeError("RAG process crashed during init ... stderr") from exc
\*   services: the exception itself propagates
InitRaise(t, ok) ==
  /\ tpc[t] = "init"
  /\ initFailed' = initFailed \cup {cSandbox}
  /\ tErr' = [tErr EXCEPT ![t] =
                IF impl = "core"
                THEN [kind |-> "init_crashed", stderr |-> ReadStderr(cSandbox, ok),
                      read |-> ok, of |-> cSandbox]
                ELSE [NoErr EXCEPT !.kind = "stream_error", !.of = cSandbox]]
  /\ tpc' = [tpc EXCEPT ![t] = "except"]
  /\ UNCHANGED <<impl, sbvars, regvars, clvars, attempt, req, reply, sentinel, via,
                 attachSaw, fails, queries, observedDead, written, created>>
  /\ UNCHANGED <<pvars, fvars, gvars, xvars>>

\* self._sandbox.stdin.write(msg.encode()); self._sandbox.stdin.drain(); break
Write(t) ==
  /\ tpc[t] = "write"
  /\ IF Alive(cSandbox)
     THEN /\ sbIn' = [sbIn EXCEPT ![cSandbox] = Append(@, req[t])]
          /\ written' = written \cup {cSandbox}
          /\ tpc' = [tpc EXCEPT ![t] = "read"]
          /\ UNCHANGED tErr
     ELSE /\ tErr' = [tErr EXCEPT ![t] = [NoErr EXCEPT !.kind = "write_failed"]]
          /\ tpc' = [tpc EXCEPT ![t] = "except"]
          /\ UNCHANGED <<sbIn, written>>
  /\ reply' = [reply EXCEPT ![t] = <<>>]
  /\ sentinel' = [sentinel EXCEPT ![t] = FALSE]
  /\ via' = [via EXCEPT ![t] = "none"]
  /\ attachSaw' = [attachSaw EXCEPT ![t] = "none"]
  /\ UNCHANGED <<impl, sbState, sbOut, sbBurst, sbErr, regvars, clvars, attempt, req,
                 fails, queries, observedDead, initFailed, created>>
  /\ UNCHANGED <<pvars, fvars, gvars, xvars>>

\* except Exception: self._reset(); if attempt == 1: raise
Except(t) ==
  /\ tpc[t] = "except"
  /\ sbState' = Terminated(cSandbox)
  /\ cSandbox' = 0
  /\ cStdout' = 0
  /\ fails' = [fails EXCEPT ![t] = @ + 1]
  /\ IF attempt[t] = 1
     THEN /\ tpc' = [tpc EXCEPT ![t] = "raised"]
          /\ UNCHANGED <<attempt, tErr>>
     ELSE /\ attempt' = [attempt EXCEPT ![t] = 1]
          /\ tErr' = [tErr EXCEPT ![t] = NoErr]
          /\ tpc' = [tpc EXCEPT ![t] = "ensure"]
  /\ via' = [via EXCEPT ![t] = "none"]
  /\ attachSaw' = [attachSaw EXCEPT ![t] = "none"]
  /\ UNCHANGED <<impl, sbOut, sbIn, sbBurst, sbErr, regvars, cLock, req, reply, sentinel,
                 histvars>>
  /\ UNCHANGED <<pvars, fvars, gvars, xvars>>

\* _read_response: one line of stdout
ReadLine(t) ==
  /\ tpc[t] = "read"
  /\ sbOut[cStdout] # <<>>
  /\ LET l == Head(sbOut[cStdout])
     IN IF l.end
        THEN /\ reply' = [reply EXCEPT ![t] = IF l.txt THEN Append(@, l) ELSE @]
             /\ sentinel' = [sentinel EXCEPT ![t] = TRUE]
             /\ tpc' = [tpc EXCEPT ![t] = "return"]
        ELSE /\ reply' = [reply EXCEPT ![t] = Append(@, l)]
             /\ UNCHANGED <<sentinel, tpc>>
  /\ sbOut' = [sbOut EXCEPT ![cStdout] = Tail(@)]
  /\ UNCHANGED <<impl, sbState, sbIn, sbBurst, sbErr, regvars, clvars, attempt, req,
                 tErr, via, attachSaw, fails, histvars>>
  /\ UNCHANGED <<pvars, fvars, gvars, xvars>>

\* _read_response: stdout ends; the for loop is left without a break
ReadEof(t) ==
  /\ tpc[t] = "read"
  /\ sbOut[cStdout] = <<>>
  /\ sbState[cStdout] = "dead"
  /\ tpc' = [tpc EXCEPT ![t] = "return"]
  /\ UNCHANGED <<impl, sbvars, regvars, clvars, attempt, req, reply, sentinel, tErr, via,
                 attachSaw, fails, histvars>>
  /\ UNCHANGED <<pvars, fvars, gvars, xvars>>

\* _read_response: iterating stdout raises
ReadRaise(t) ==
  /\ tpc[t] = "read"
  /\ tErr' = [tErr EXCEPT ![t] = [NoErr EXCEPT !.kind = "read_failed"]]
  /\ fails' = [fails EXCEPT ![t] = @ + 1]
  /\ tpc' = [tpc EXCEPT ![t] = ReadRaiseNext]
  /\ UNCHANGED <<impl, sbvars, regvars, clvars, attempt, req, reply, sentinel, via,
                 attachSaw, histvars>>
  /\ UNCHANGED <<pvars, fvars, gvars, xvars>>

\* leaving the with block: query returns the RagResponse or raises
Release(t) ==
  /\ tpc[t] \in {"return", "raised"}
  /\ cLock' = IF cLock = t THEN 0 ELSE cLock
  /\ tpc' = [tpc EXCEPT ![t] = "idle"]
  /\ attempt' = [attempt EXCEPT ![t] = 0]
  /\ req' = [req EXCEPT ![t] = 0]
  /\ reply' = [reply EXCEPT ![t] = <<>>]
  /\ sentinel' = [sentinel EXCEPT ![t] = FALSE]
  /\ tErr' = [tErr EXCEPT ![t] = NoErr]
  /\ fails' = [fails EXCEPT ![t] = 0]
  /\ UNCHANGED <<impl, sbvars, regvars, cSandbox, cStdout, via, attachSaw, histvars>>
  /\ UNCHANGED <<pvars, fvars, gvars, xvars>>

CNext ==
  \/ \E s \in Sandboxes : SbStartupLine(s)
  \/ \E s \in Sandboxes : SbReady(s)
  \/ \E s \in Sandboxes : SbOutput(s)
  \/ \E s \in Sandboxes, x \in BOOLEAN : SbEndTurn(s, x)
  \/ \E s \in Sandboxes : SbExit(s)
  \/ RegistryForget
  \/ NameRelease
  \/ OtherCreate
  \/ \E t \in Threads : Query(t)
  \/ \E t \in Threads : CAcquire(t)
  \/ \E t \in Threads : Ensure(t)
  \/ \E t \in Threads : Boot(t)
  \/ \E t \in Threads : Recover(t)
  \/ \E t \in Threads : InitRead(t)
  \/ \E t \in Threads, ok \in BOOLEAN : InitEof(t, ok)
  \/ \E t \in Threads, ok \in BOOLEAN : InitRaise(t, ok)
  \/ \E t \in Threads : Write(t)
  \/ \E t \in Threads : Except(t)
  \/ \E t \in Threads : ReadLine(t)
  \/ \E t \in Threads : ReadEof(t)
  \/ \E t \in Threads : ReadRaise(t)
  \/ \E t \in Threads : Release(t)

\* ================================================ Indexer.build and diff
NoDiff == [st |-> "none", old |-> Empty, to_add |-> {}, to_delete |-> {}]

NoMerge == [st |-> "none", map |-> Empty]
\* no merge on its own under way
MergeIdle ==
  /\ mBase = Empty
  /\ mParts = [i \in Parts |-> Empty]
  /\ mOrder = [i \in Parts |-> i]
  /\ mOut = NoMerge

NoParse == [st |-> "none", files |-> <<>>, text |-> <<>>]
\* no reply being parsed
ParseIdle ==
  /\ rText = <<>>
  /\ rOut = NoParse

NoCmd == [cmd |-> "none", force |-> FALSE]
\* no message being dispatched
HandleIdle ==
  /\ hMsg = <<>>
  /\ hOut = NoCmd

NoBatches == [st |-> "none", batches |-> <<>>, ids |-> <<>>]
\* no list being batched
BatchIdle ==
  /\ bFiles = <<>>
  /\ bN = 1
  /\ bOut = NoBatches
\* no call inside the worker
GuardIdle ==
  /\ gpuLock = 0
  /\ chromaLock = 0
  /\ slotPc = [s \in Slots |-> "idle"]
  /\ slotLeft = [s \in Slots |-> 0]

\* no serving process under observation
ServerIdle ==
  /\ vIn = <<>>
  /\ vPos = 0
  /\ vOut = <<>>
  /\ vPc = "off"
\* no thread inside the router
LockIdle ==
  /\ rtPc = [t \in Routed |-> "idle"]
  /\ ipLock = 0
  /\ rcLock = 0
\* an Indexer with an empty directory, no manifest and an empty collection
BuildIdle ==
  /\ xDir = [d \in Docs |-> 0]
  /\ xManifest = [d \in Docs |-> 0]
  /\ xStore = {}
  /\ xRet = "none"
NoZip == [st |-> "none", batches |-> <<>>]
\* no archive being parsed
ZipIdle ==
  /\ zEntries = <<>>
  /\ zN = 1
  /\ zOut = NoZip
XIdle == ServerIdle /\ LockIdle /\ BuildIdle /\ ZipIdle

\* the functions at rest
FInit ==
  /\ XIdle
  /\ dOld = Empty
  /\ dCur = Empty
  /\ dForce = FALSE
  /\ dOut = NoDiff
  /\ MergeIdle
  /\ ParseIdle
  /\ HandleIdle
  /\ BatchIdle
  /\ GuardIdle

\* a diff that takes every current name as new
BadDiff(old, cur) ==
  [to_add |-> {n \in Docs : cur[n] # 0}, to_delete |-> {n \in Docs : old[n] # 0 /\ cur[n] = 0}]
\* Manifest.diff(old, current) -> (to_add, to_delete)
Diff(old, cur) ==
  [to_add |-> {n \in Docs : cur[n] # 0 /\ (old[n] = 0 \/ old[n] # cur[n])},
   to_delete |-> {n \in Docs : old[n] # 0 /\ cur[n] = 0}]

\* Indexer.build: current_files = scan(); old = {} if force else load(); diff(old, current)
Build ==
  /\ dOut.st = "none"
  /\ IF \A n \in Docs : dCur[n] = 0
     THEN dOut' = [NoDiff EXCEPT !.st = "nothing"]
     ELSE LET old == IF dForce THEN Empty ELSE dOld
              r == Diff(old, dCur)
          IN dOut' = [st |-> "diffed", old |-> old,
                      to_add |-> r.to_add, to_delete |-> r.to_delete]
  /\ UNCHANGED <<dOld, dCur, dForce, mBase, mParts, mOrder, mOut, rText, rOut, hMsg, hOut>>
  /\ UNCHANGED <<pvars, cvars, gvars, xvars>>

DiffNext == Build

\* ============================================ _merge_worker_manifests alone
\* manifest.update(...) for each file, in the order given: order[1] first
RECURSIVE MergeInOrder(_, _, _, _)
MergeInOrder(m, parts, order, i) ==
  IF i > MaxParts THEN m ELSE MergeInOrder(Overlay(m, parts[order[i]]), parts, order, i + 1)

Orders == {o \in [Parts -> Parts] : \A i, j \in Parts : o[i] = o[j] => i = j}
DisjointKeys(parts) ==
  \A i, j \in Parts : i # j => Keys(parts[i]) \cap Keys(parts[j]) = {}

MergeParts ==
  /\ mOut.st = "none"
  /\ mOut' = [st |-> "merged", map |-> MergeInOrder(mBase, mParts, mOrder, 1)]
  /\ UNCHANGED <<mBase, mParts, mOrder, dOld, dCur, dForce, dOut, rText, rOut, hMsg, hOut>>
  /\ UNCHANGED <<pvars, cvars, gvars, xvars>>

MergeNext == MergeParts

\* ========================================== _read_response: OUTPUT_FILE markers
Max(S) == CHOOSE x \in S : \A y \in S : x >= y

\* str.strip()
Strip(t) ==
  LET ix == {i \in 1..Len(t) : t[i] # "N"}
  IN IF ix = {} THEN <<>> ELSE SubSeq(t, Min(ix), Max(ix))

\* the ends at which a match of \[OUTPUT_FILE:(.+?)\] starting at i can stop: a ]
\* after at least one character, none of them a newline
MatchEnds(t, i) ==
  IF t[i] # "O" THEN {}
  ELSE {j \in (i + 2)..Len(t) : t[j] = "C" /\ \A k \in (i + 1)..(j - 1) : t[k] # "N"}

\* a greedy match: .+ in place of .+?
BadMatchEnd(t, i) == IF MatchEnds(t, i) = {} THEN 0 ELSE Max(MatchEnds(t, i))
\* the match of the pattern at i ends at MatchEnd (0: no match at i); .+? is lazy
MatchEnd(t, i) == IF MatchEnds(t, i) = {} THEN 0 ELSE Min(MatchEnds(t, i))

\* _OUTPUT_FILE_RE.findall(text), scanning from position i
RECURSIVE FindAll(_, _)
FindAll(t, i) ==
  IF i > Len(t) THEN <<>>
  ELSE IF MatchEnd(t, i) # 0
       THEN <<SubSeq(t, i + 1, MatchEnd(t, i) - 1)>> \o FindAll(t, MatchEnd(t, i) + 1)
       ELSE FindAll(t, i + 1)

\* _OUTPUT_FILE_RE.sub("", text), scanning from position i
RECURSIVE SubEmpty(_, _)
SubEmpty(t, i) ==
  IF i > Len(t) THEN <<>>
  ELSE IF MatchEnd(t, i) # 0
       THEN SubEmpty(t, MatchEnd(t, i) + 1)
       ELSE <<t[i]>> \o SubEmpty(t, i + 1)

\* text = "\n".join(lines).strip(); findall; sub("", text).strip()
ParseReply ==
  /\ rOut.st = "none"
  /\ LET text == Strip(rText)
     IN rOut' = [st |-> "parsed", files |-> FindAll(text, 1),
                 text |-> Strip(SubEmpty(text, 1))]
  /\ UNCHANGED <<rText, dOld, dCur, dForce, dOut, mBase, mParts, mOrder, mOut, hMsg, hOut>>
  /\ UNCHANGED <<pvars, cvars, gvars, xvars>>

ParseNext == ParseReply

\* ================================================== MessageHandler._handle
\* user_msg.strip()
StripBlanks(t) ==
  LET ix == {i \in 1..Len(t) : t[i] # " "}
  IN IF ix = {} THEN <<>> ELSE SubSeq(t, Min(ix), Max(ix))
\* msg.lower()
Lower(t) == [i \in 1..Len(t) |-> IF t[i] = "REINDEX" THEN "reindex" ELSE t[i]]

\* lower.startswith("reindex")
StartsWithReindex(l) == Len(l) >= 1 /\ l[1] = "reindex"
\* "--force" in lower
HasForce(l) == \E i \in 1..Len(l) : l[i] = "--force"

\* _handle: the if / elif chain
Dispatched(l) ==
  IF l = <<"reload">> THEN [cmd |-> "reload", force |-> FALSE]
  ELSE IF StartsWithReindex(l) THEN [cmd |-> "reindex", force |-> HasForce(l)]
  ELSE IF l = <<"status">> THEN [cmd |-> "status", force |-> FALSE]
  ELSE IF l = <<"clear">> THEN [cmd |-> "clear", force |-> FALSE]
  ELSE [cmd |-> "query", force |-> FALSE]

Handle ==
  /\ hOut.cmd = "none"
  /\ hOut' = Dispatched(Lower(StripBlanks(hMsg)))
  /\ UNCHANGED <<hMsg, dOld, dCur, dForce, dOut, mBase, mParts, mOrder, mOut, rText, rOut>>
  /\ UNCHANGED <<pvars, cvars, gvars, xvars>>

HandleNext == Handle

\* ============================================ IndexPipeline._make_batches
\* a chunk size one above the floor of total / n
BadBatchSize(total, n) == (total \div n) + 1
\* chunk_size = math.ceil(len(files) / N_WORKERS)
BatchSize(total, n) == Ceil(total, n)
\* batches = [files[i : i + chunk_size] for i in range(0, len(files), chunk_size)]
BatchesOf(fs, n) ==
  LET cs == BatchSize(Len(fs), n)
      starts == {i \in 0..(Len(fs) - 1) : i % cs = 0}
  IN [b \in 1..Cardinality(starts) |->
        SubSeq(fs, (b - 1) * cs + 1, Min({(b - 1) * cs + cs, Len(fs)}))]
\* list(range(len(batches)))
IdsOf(batches) == [b \in 1..Len(batches) |-> b - 1]

MakeBatches ==
  /\ bOut.st = "none"
  /\ bOut' = [st |-> "made", batches |-> BatchesOf(bFiles, bN),
              ids |-> IdsOf(BatchesOf(bFiles, bN))]
  /\ UNCHANGED <<bFiles, bN, gpuLock, chromaLock, slotPc, slotLeft>>
  /\ UNCHANGED <<pvars, cvars, fvars, xvars>>

BatchNext == MakeBatches

\* ============================ EmbedWorker._chunk_embed_upsert, concurrently
\* a GPU guard that never blocks
BadGpuFree == TRUE
\* with self._gpu_lock:
GpuFree == gpuLock = 0
\* with self._chroma_lock:
ChromaFree == chromaLock = 0

\* nodes = self._splitter.get_nodes_from_documents(docs); if not nodes: return 0
\* u: the number of UPSERT_BATCH slices of the nodes (0: no node)
Chunk(s, u) ==
  /\ slotPc[s] = "idle"
  /\ slotPc' = [slotPc EXCEPT ![s] = IF u = 0 THEN "idle" ELSE "gpu_wait"]
  /\ slotLeft' = [slotLeft EXCEPT ![s] = u]
  /\ UNCHANGED <<gpuLock, chromaLock, bFiles, bN, bOut>>
  /\ UNCHANGED <<pvars, cvars, fvars, xvars>>

\* _embed_texts: entering the with block
GpuAcquire(s) ==
  /\ slotPc[s] = "gpu_wait"
  /\ GpuFree
  /\ gpuLock' = s
  /\ slotPc' = [slotPc EXCEPT ![s] = "embedding"]
  /\ UNCHANGED <<chromaLock, slotLeft, bFiles, bN, bOut>>
  /\ UNCHANGED <<pvars, cvars, fvars, xvars>>

\* get_text_embedding_batch returns or raises; leaving the with block either way
GpuRelease(s, ok) ==
  /\ slotPc[s] = "embedding"
  /\ gpuLock' = IF gpuLock = s THEN 0 ELSE gpuLock
  /\ slotPc' = [slotPc EXCEPT ![s] = IF ok THEN "upsert_wait" ELSE "idle"]
  /\ slotLeft' = [slotLeft EXCEPT ![s] = IF ok THEN @ ELSE 0]
  /\ UNCHANGED <<chromaLock, bFiles, bN, bOut>>
  /\ UNCHANGED <<pvars, cvars, fvars, xvars>>

\* _upsert: entering the with block for the next slice
ChromaAcquire(s) ==
  /\ slotPc[s] = "upsert_wait"
  /\ ChromaFree
  /\ chromaLock' = s
  /\ slotPc' = [slotPc EXCEPT ![s] = "upserting"]
  /\ UNCHANGED <<gpuLock, slotLeft, bFiles, bN, bOut>>
  /\ UNCHANGED <<pvars, cvars, fvars, xvars>>

\* self._collection.upsert returns or raises; leaving the with block either way
ChromaRelease(s, ok) ==
  /\ slotPc[s] = "upserting"
  /\ chromaLock' = IF chromaLock = s THEN 0 ELSE chromaLock
  /\ slotLeft' = [slotLeft EXCEPT ![s] = IF ok THEN @ - 1 ELSE 0]
  /\ slotPc' = [slotPc EXCEPT ![s] =
                  IF ~ok THEN "idle"
                  ELSE IF slotLeft[s] > 1 THEN "upsert_wait" ELSE "commit"]
  /\ UNCHANGED <<gpuLock, bFiles, bN, bOut>>
  /\ UNCHANGED <<pvars, cvars, fvars, xvars>>

\* rag_vol.commit(); return len(nodes)
Commit(s) ==
  /\ slotPc[s] = "commit"
  /\ slotPc' = [slotPc EXCEPT ![s] = "idle"]
  /\ UNCHANGED <<gpuLock, chromaLock, slotLeft, bFiles, bN, bOut>>
  /\ UNCHANGED <<pvars, cvars, fvars, xvars>>

GuardNext ==
  \/ \E s \in Slots, u \in 0..MaxUpserts : Chunk(s, u)
  \/ \E s \in Slots : GpuAcquire(s)
  \/ \E s \in Slots, ok \in BOOLEAN : GpuRelease(s, ok)
  \/ \E s \in Slots : ChromaAcquire(s)
  \/ \E s \in Slots, ok \in BOOLEAN : ChromaRelease(s, ok)
  \/ \E s \in Slots : Commit(s)

\* ------------------------------------ the serving process: main() and run()
LineKinds == {"blank", "parse_error", "handle_error", "ok"}
Inputs == UNION {[1..n -> LineKinds] : n \in 0..MaxIn}
PrintedLine(j) == [rq |-> j, end |-> FALSE]       \* a line printed for request j
EndTurn(j) == [rq |-> j, end |-> TRUE]     \* print(END_TURN, flush=True)
PrintedLines(j, n) == [i \in 1..n |-> PrintedLine(j)]

\* a loop that skips nothing
BadBlank(l) == FALSE
\* line = line.strip(); if not line: continue
Blank(l) == l = "blank"

\* what one pass of the loop body prints for line j of kind l, the handler
\* printing n lines: json.loads or data[...] raising prints the traceback,
\* _handle raising prints what it had printed and then the traceback; the
\* sentinel follows in every case
Printed(j, l, n) ==
  CASE l = "ok" -> PrintedLines(j, n) \o <<EndTurn(j)>>
    [] l = "handle_error" -> PrintedLines(j, n) \o <<PrintedLine(j), EndTurn(j)>>
    [] OTHER -> <<PrintedLine(j), EndTurn(j)>>

\* main(): container = ServiceContainer(); print(END_TURN); MessageHandler(container).run()
Main(n) ==
  /\ vPc = "start"
  /\ vOut' = vOut \o PrintedLines(0, n) \o <<EndTurn(0)>>
  /\ vPc' = "loop"
  /\ UNCHANGED <<vIn, vPos>>
  /\ UNCHANGED <<pvars, cvars, fvars, gvars>> /\ UNCHANGED <<lvars, ivars, zvars>>

\* one pass of `for line in sys.stdin` in MessageHandler.run()
Run(n) ==
  /\ vPc = "loop"
  /\ vPos < Len(vIn)
  /\ vPos' = vPos + 1
  /\ vOut' = IF Blank(vIn[vPos + 1]) THEN vOut
                ELSE vOut \o Printed(vPos + 1, vIn[vPos + 1], n)
  /\ UNCHANGED <<vIn, vPc>>
  /\ UNCHANGED <<pvars, cvars, fvars, gvars>> /\ UNCHANGED <<lvars, ivars, zvars>>

\* sys.stdin is exhausted: run() returns
Eof ==
  /\ vPc = "loop"
  /\ vPos = Len(vIn)
  /\ vPc' = "eof"
  /\ UNCHANGED <<vIn, vPos, vOut>>
  /\ UNCHANGED <<pvars, cvars, fvars, gvars>> /\ UNCHANGED <<lvars, ivars, zvars>>

ServerNext ==
  \/ \E n \in 0..MaxOut : Main(n)
  \/ \E n \in 0..MaxOut : Run(n)
  \/ Eof

\* ------------------------- MessageRouter: reindex and query on shared locks
\* a reload callback that calls reindex again
BadReloadFn == "reindex"
\* _do_reindex: reload_fn=lambda: self._rag.query("reload", ctx.sandbox_name)
ReloadFn == "query"

\* route -> _handle_rag_query: self._rag.query(...) reaches `with self._lock`
RtQuery(t) ==
  /\ rtPc[t] = "idle"
  /\ rtPc' = [rtPc EXCEPT ![t] = "q_lock"]
  /\ UNCHANGED <<ipLock, rcLock>>
  /\ UNCHANGED <<pvars, cvars, fvars, gvars>> /\ UNCHANGED <<svars, ivars, zvars>>

\* route -> _do_reindex: self._indexer.reindex(...) reaches `with self._lock`
RtReindex(t) ==
  /\ rtPc[t] = "idle"
  /\ rtPc' = [rtPc EXCEPT ![t] = "r_lock"]
  /\ UNCHANGED <<ipLock, rcLock>>
  /\ UNCHANGED <<pvars, cvars, fvars, gvars>> /\ UNCHANGED <<svars, ivars, zvars>>

\* IndexPipeline.reindex: with self._lock (threading.Lock, not reentrant)
RtPipeAcquire(t) ==
  /\ rtPc[t] = "r_lock"
  /\ ipLock = 0
  /\ ipLock' = t
  /\ rtPc' = [rtPc EXCEPT ![t] = "r_run"]
  /\ UNCHANGED rcLock
  /\ UNCHANGED <<pvars, cvars, fvars, gvars>> /\ UNCHANGED <<svars, ivars, zvars>>

\* scan, embed and finalize return; reload_fn is called with the lock held.
\* early: nothing to index (or a phase raised) and the with block is left.
RtPhases(t, early) ==
  /\ rtPc[t] = "r_run"
  /\ rtPc' = [rtPc EXCEPT ![t] = IF early THEN "r_exit"
                                  ELSE IF ReloadFn = "query" THEN "rq_lock" ELSE "r_lock"]
  /\ UNCHANGED <<ipLock, rcLock>>
  /\ UNCHANGED <<pvars, cvars, fvars, gvars>> /\ UNCHANGED <<svars, ivars, zvars>>

\* RagClient.query: with self._lock, from a query or from the reload callback
RtClientAcquire(t) ==
  /\ rtPc[t] \in {"q_lock", "rq_lock"}
  /\ rcLock = 0
  /\ rcLock' = t
  /\ rtPc' = [rtPc EXCEPT ![t] = IF rtPc[t] = "q_lock" THEN "q_run" ELSE "rq_run"]
  /\ UNCHANGED ipLock
  /\ UNCHANGED <<pvars, cvars, fvars, gvars>> /\ UNCHANGED <<svars, ivars, zvars>>

\* the exchange with the sandbox returns or raises: the with block of query is left
RtClientRelease(t) ==
  /\ rtPc[t] \in {"q_run", "rq_run"}
  /\ rcLock' = IF rcLock = t THEN 0 ELSE rcLock
  /\ rtPc' = [rtPc EXCEPT ![t] = IF rtPc[t] = "q_run" THEN "idle" ELSE "r_exit"]
  /\ UNCHANGED ipLock
  /\ UNCHANGED <<pvars, cvars, fvars, gvars>> /\ UNCHANGED <<svars, ivars, zvars>>

\* reindex leaves its with block, by return or by an exception
RtPipeRelease(t) ==
  /\ rtPc[t] = "r_exit"
  /\ ipLock' = IF ipLock = t THEN 0 ELSE ipLock
  /\ rtPc' = [rtPc EXCEPT ![t] = "idle"]
  /\ UNCHANGED rcLock
  /\ UNCHANGED <<pvars, cvars, fvars, gvars>> /\ UNCHANGED <<svars, ivars, zvars>>

RtStep(t) ==
  \/ RtPipeAcquire(t)
  \/ \E early \in BOOLEAN : RtPhases(t, early)
  \/ RtClientAcquire(t)
  \/ RtClientRelease(t)
  \/ RtPipeRelease(t)

RouterNext ==
  \E t \in Routed : RtQuery(t) \/ RtReindex(t) \/ RtStep(t)

\* --------------------------------------------------------- Indexer.build
\* a file of the documents directory is written (v > 0) or removed (v = 0)
DirWrite(d, v) ==
  /\ xDir[d] # v
  /\ xDir' = [xDir EXCEPT ![d] = v]
  /\ xRet' = "none"
  /\ UNCHANGED <<xManifest, xStore>>
  /\ UNCHANGED <<pvars, cvars, fvars, gvars>> /\ UNCHANGED <<svars, lvars, zvars>>

\* ChunkStore.delete_by_source(names)
DeleteBySource(store, names) == {p \in store : p[1] \notin names}
\* index.insert_nodes for the nodes parsed from the files `names`
InsertNodes(store, names) == store \cup {<<d, xDir[d]>> : d \in names}

\* Indexer.build(force=f). fail: the step that raises ("none": it returns);
\* done: the files whose nodes were inserted before _insert_nodes raised
IndexerBuild(f, fail, done) ==
  LET current == xDir
      old == IF f THEN Empty ELSE xManifest
      reset == IF f THEN {} ELSE xStore
      r == Diff(old, current)
      deleted == DeleteBySource(reset, r.to_delete)
  IN IF Keys(current) = {}
     THEN \* if not current_files: return (0, 0, 0)
          /\ fail = "none" /\ done = {}
          /\ xRet' = "returned"
          /\ UNCHANGED <<xDir, xManifest, xStore>>
     ELSE /\ CASE fail = "delete" ->
                 /\ done = {}
                 /\ xStore' = reset
                 /\ xRet' = "raised"
                 /\ UNCHANGED xManifest
            [] fail = "insert" ->
                 /\ done \subseteq r.to_add /\ done # r.to_add
                 /\ xStore' = InsertNodes(deleted, done)
                 /\ xRet' = "raised"
                 /\ UNCHANGED xManifest
            [] OTHER ->
                 /\ done = {}
                 /\ xStore' = InsertNodes(deleted, r.to_add)
                 /\ xManifest' = current
                 /\ xRet' = "returned"
          /\ UNCHANGED xDir

BuildCall(f, fail, done) ==
  /\ IndexerBuild(f, fail, done)
  /\ UNCHANGED <<pvars, cvars, fvars, gvars>> /\ UNCHANGED <<svars, lvars, zvars>>

BuildNext ==
  \/ \E d \in Docs, v \in 0..MaxFp : DirWrite(d, v)
  \/ \E f \in BOOLEAN, fail \in {"none", "delete", "insert"}, done \in SUBSET Docs :
       BuildCall(f, fail, done)

\* ------------------------------- _parse_zip / _process_zip on one archive
\* "dir": the name ends with "/"; "fail": reading or extracting raises;
\* "blank": the text is empty or whitespace; "text": anything else
EntryKinds == {"dir", "fail", "blank", "text"}
Archives == UNION {[1..n -> EntryKinds] : n \in 0..MaxEntries}

\* _read_zip_entry: the text, or None when zf.read / PdfReader raises
ReadZipEntry(e) == IF e = "fail" THEN "None" ELSE e
\* if name.endswith("/"): continue ... if not text or not text.strip(): continue
Skipped(e) == e = "dir" \/ ReadZipEntry(e) \in {"None", "blank"}

\* a batch that is handed on only when it has grown past the batch size
BadFull(batch, n) == Len(batch) > n
\* if len(batch) >= ZIP_BATCH_SIZE
Full(batch, n) == Len(batch) >= n

\* the for loop over the names from position i on, then `if batch: yield ...`
RECURSIVE ZipLoop(_, _, _, _, _)
ZipLoop(entries, n, i, batch, out) ==
  IF i > Len(entries)
  THEN IF batch # <<>> THEN Append(out, batch) ELSE out
  ELSE IF Skipped(entries[i])
       THEN ZipLoop(entries, n, i + 1, batch, out)
       ELSE IF Full(Append(batch, i), n)
            THEN ZipLoop(entries, n, i + 1, <<>>, Append(out, Append(batch, i)))
            ELSE ZipLoop(entries, n, i + 1, Append(batch, i), out)

\* the batches _parse_zip yields (and _process_zip embeds) for an archive
ParseZip ==
  /\ zOut.st = "none"
  /\ zOut' = [st |-> "done", batches |-> ZipLoop(zEntries, zN, 1, <<>>, <<>>)]
  /\ UNCHANGED <<zEntries, zN>>
  /\ UNCHANGED <<pvars, cvars, fvars, gvars>> /\ UNCHANGED <<svars, lvars, ivars>>

ZipNext == ParseZip

\* ------------------------------------------------------- specifications
\* the pipeline alone, with the client at rest
InitPipeline == PInit /\ CInit /\ impl = "core" /\ FInit
SpecPipeline == InitPipeline /\ [][PNext]_vars
\* the client alone, with the pipeline at rest
InitClient == PInit /\ CInit /\ FInit
SpecClient == InitClient /\ [][CNext]_vars
\* the pipeline started on every state of the volume: directory missing, empty or
\* holding files; manifest.json missing, readable or unparsable (its map is then
\* what a reader that skipped the parse error would take from it)
ManifestFiles ==
  {NoManifest} \cup {[state |-> st, map |-> mp] : st \in {"ok", "corrupt"}, mp \in [Docs -> Fps]}
InitScan ==
  /\ docsDir \in BOOLEAN
  /\ docs \in [Docs -> {0, 1}]      \* each file absent, or present with its first stat
  /\ ~docsDir => docs = Empty
  /\ manifestFile \in ManifestFiles
  /\ PipelineIdle /\ CInit /\ impl = "core" /\ FInit
ScanNext ==
  \/ \E c \in Callers, f \in BOOLEAN : Call(c, f)
  \/ \E c \in Callers : Acquire(c)
  \/ \E c \in Callers : Scan(c)
  \/ \E c \in Callers : Dispatch(c)
  \/ \E c \in Callers, w \in WorkerIds, k \in Containers : InvStart(c, w, k)
  \/ \E c \in Callers, w \in WorkerIds : InvSetPath(c, w)
  \/ \E c \in Callers, w \in WorkerIds : InvProcess(c, w)
  \/ \E c \in Callers, w \in WorkerIds, n \in 0..1 : InvFail(c, w, n)
  \/ \E c \in Callers, w \in WorkerIds : InvUpdate(c, w)
  \/ \E c \in Callers : Collect(c)
  \/ \E c \in Callers, r \in BOOLEAN : Finalize(c, r)
  \/ \E c \in Callers, ok \in BOOLEAN : Reload(c, ok)
  \/ \E c \in Callers : Return(c)
SpecScan == InitScan /\ [][ScanNext]_vars

\* runs of reindex in which a phase may raise, over a directory that exists; every
\* thread inside reindex, every worker input and every remote call goes on running
InitRun ==
  /\ docsDir = TRUE
  /\ docs \in [Docs -> {0, 1}]
  /\ manifestFile = NoManifest
  /\ PipelineIdle /\ CInit /\ impl = "core" /\ FInit
RunSteps ==
  \/ \E c \in Callers : Acquire(c)
  \/ \E c \in Callers : Scan(c)
  \/ \E c \in Callers : ScanRaise(c)
  \/ \E c \in Callers : Dispatch(c)
  \/ \E c \in Callers, w \in WorkerIds, k \in Containers : InvStart(c, w, k)
  \/ \E c \in Callers, w \in WorkerIds : InvSetPath(c, w)
  \/ \E c \in Callers, w \in WorkerIds : InvProcess(c, w)
  \/ \E c \in Callers, w \in WorkerIds, n \in 0..1 : InvFail(c, w, n)
  \/ \E c \in Callers, w \in WorkerIds : InvUpdate(c, w)
  \/ \E c \in Callers : Collect(c)
  \/ \E c \in Callers, r \in BOOLEAN : Finalize(c, r)
  \/ \E c \in Callers : FinalizeRaise(c)
  \/ \E c \in Callers, ok \in BOOLEAN : Reload(c, ok)
  \/ \E c \in Callers : Return(c)
RunNext ==
  \/ \E c \in Callers, f \in BOOLEAN : Call(c, f)
  \/ RunSteps
SpecRun == InitRun /\ [][RunNext]_vars /\ WF_vars(RunSteps)
\* Indexer.build on every pair of manifests
InitDiff ==
  /\ PInit /\ CInit /\ impl = "core"
  /\ dOld \in [Docs -> DiffFps]
  /\ dCur \in [Docs -> DiffFps]
  /\ dForce \in BOOLEAN
  /\ dOut = NoDiff
  /\ MergeIdle /\ ParseIdle /\ HandleIdle /\ BatchIdle /\ GuardIdle /\ XIdle
SpecDiff == InitDiff /\ [][DiffNext]_vars
\* the merge on every canonical manifest, every family of partial manifests with
\* pairwise disjoint keys and every order of overlay
InitMerge ==
  /\ PInit /\ CInit /\ impl = "core"
  /\ dOld = Empty /\ dCur = Empty /\ dForce = FALSE /\ dOut = NoDiff
  /\ mParts \in [Parts -> [Docs -> Fps]]
  /\ DisjointKeys(mParts)
  /\ mBase \in [Docs -> Fps]
  /\ mOrder \in Orders
  /\ mOut = NoMerge
  /\ ParseIdle /\ HandleIdle /\ BatchIdle /\ GuardIdle /\ XIdle
SpecMerge == InitMerge /\ [][MergeNext]_vars
\* the parsing of every reply text of up to MaxText tokens
Texts == UNION {[1..n -> Tokens] : n \in 0..MaxText}
InitParse ==
  /\ PInit /\ CInit /\ impl = "core"
  /\ dOld = Empty /\ dCur = Empty /\ dForce = FALSE /\ dOut = NoDiff
  /\ MergeIdle
  /\ rText \in Texts
  /\ rOut = NoParse
  /\ HandleIdle /\ BatchIdle /\ GuardIdle /\ XIdle
SpecParse == InitParse /\ [][ParseNext]_vars
\* the dispatch of every request message of up to MaxMsg tokens
Messages == UNION {[1..n -> MsgTokens] : n \in 0..MaxMsg}
InitHandle ==
  /\ PInit /\ CInit /\ impl = "core"
  /\ dOld = Empty /\ dCur = Empty /\ dForce = FALSE /\ dOut = NoDiff
  /\ MergeIdle /\ ParseIdle
  /\ hMsg \in Messages
  /\ hOut = NoCmd
  /\ BatchIdle /\ GuardIdle /\ XIdle
SpecHandle == InitHandle /\ [][HandleNext]_vars
\* the batching of every list of up to MaxTotal documents for up to MaxN workers
InitBatch ==
  /\ PInit /\ CInit /\ impl = "core"
  /\ dOld = Empty /\ dCur = Empty /\ dForce = FALSE /\ dOut = NoDiff
  /\ MergeIdle /\ ParseIdle /\ HandleIdle
  /\ bFiles \in {[i \in 1..n |-> i] : n \in 1..MaxTotal}
  /\ bN \in 1..MaxN
  /\ bOut = NoBatches
  /\ GuardIdle /\ XIdle
SpecBatch == InitBatch /\ [][BatchNext]_vars
\* one EmbedWorker container serving WORKERS_PER_GPU concurrent inputs
InitGuard == PInit /\ CInit /\ impl = "core" /\ FInit
SpecGuard == InitGuard /\ [][GuardNext]_vars
\* the serving process fed every stdin of up to MaxIn lines
InitServer ==
  /\ PInit /\ CInit /\ impl = "core"
  /\ dOld = Empty /\ dCur = Empty /\ dForce = FALSE /\ dOut = NoDiff
  /\ MergeIdle /\ ParseIdle /\ HandleIdle /\ BatchIdle /\ GuardIdle
  /\ vIn \in Inputs
  /\ vPos = 0
  /\ vOut = <<>>
  /\ vPc = "start"
  /\ LockIdle /\ BuildIdle /\ ZipIdle
SpecServer == InitServer /\ [][ServerNext]_vars
\* MaxRouted router threads issuing reindex and query calls
InitRouter == PInit /\ CInit /\ impl = "services" /\ FInit
SpecRouter == InitRouter /\ [][RouterNext]_vars
\* an Indexer whose directory changes between build calls
InitBuild == PInit /\ CInit /\ impl = "core" /\ FInit
SpecBuild == InitBuild /\ [][BuildNext]_vars
\* every archive of up to MaxEntries entries, parsed with every batch size
InitZip ==
  /\ PInit /\ CInit /\ impl = "core"
  /\ dOld = Empty /\ dCur = Empty /\ dForce = FALSE /\ dOut = NoDiff
  /\ MergeIdle /\ ParseIdle /\ HandleIdle /\ BatchIdle /\ GuardIdle
  /\ ServerIdle /\ LockIdle /\ BuildIdle
  /\ zEntries \in Archives
  /\ zN \in 1..MaxZipBatch
  /\ zOut = NoZip
SpecZip == InitZip /\ [][ZipNext]_vars

\* ===================================================== claims, pipeline
\* the run of caller c went through Finalize and is about to leave reindex
Finalized(c) == pc[c] = "return" /\ result[c].kind = "summary"
BatchDocs(c, w) == {Batch(files[c], w)[j] : j \in 1..Len(Batch(files[c], w))}
FailedBatches(c) == {w \in WorkerIds : inv[c][w].st = "failed"}
DoneBatches(c) == {w \in WorkerIds : inv[c][w].st = "done"}
\* the chunks of a from-scratch embed of the documents now present
FreshChunks == UNION {ChunkIds(d, docs[d], ChunkCount(d, docs[d])) : d \in PresentDocs}

\* C1: after reindex(force=True) with at least one document, every batch succeeding
\* and no document changing during the run, the keys of the persisted manifest are
\* exactly the documents present in the directory.
C1_ForcedManifestIsPresentDocs ==
  \A c \in Callers :
    (Finalized(c) /\ force[c] /\ Succeeded(c) /\ ~changed[c])
      => (manifestFile.state = "ok" /\ Keys(manifestFile.map) = PresentDocs)

\* C2: after reindex(force=True) with every batch succeeding, the collection holds
\* exactly the chunks of a from-scratch embed of the present documents: the count is
\* the sum of their chunk counts and no older chunk survives.
C2_ForcedCollectionIsFresh ==
  \A c \in Callers :
    (Finalized(c) /\ force[c] /\ Succeeded(c) /\ ~changed[c])
      => /\ CollectionCount = SumOver(PresentDocs, [d \in Docs |-> ChunkCount(d, docs[d])])
         /\ coll.chunks = FreshChunks

\* C3: a run that follows a run in which every batch succeeded, with no document
\* changed in between, scans an empty work list and leaves the manifest and the
\* chunk count as they were.
C3_SecondRunIdle ==
  /\ [](\A c \in Callers :
          (pc[c] \in {"embed", "map", "finalize", "reload", "return"}
             /\ ~force[c] /\ prev.valid /\ ~changed[c])
            => files[c] = <<>>)
  /\ [][\A c \in Callers :
          (pc[c] \in InRun /\ ~force[c] /\ prev.valid /\ ~changed[c])
            => (manifestFile'.map = manifestFile.map /\ CollectionCount' = CollectionCount)]_pvars

\* C4: one batch of a non-forced run raises and the others succeed: after Finalize
\* no document of the failing batch is a key of the manifest, and every document
\* of the succeeding batches is.
C4_FailedBatchAbsent ==
  \A c \in Callers :
    (Finalized(c) /\ ~force[c] /\ Cardinality(FailedBatches(c)) = 1)
      => /\ \A w \in FailedBatches(c) : \A d \in BatchDocs(c, w) : LoadManifest[d] = 0
         /\ \A w \in DoneBatches(c) : \A d \in BatchDocs(c, w) : LoadManifest[d] # 0

\* C5: at most one reindex call is inside the scan/embed/finalize/reload sequence,
\* and it is the holder of the lock; the other callers wait at the lock.
C5_SingleFlight ==
  /\ \A a, b \in Callers : (pc[a] \in InRun /\ pc[b] \in InRun) => a = b
  /\ \A c \in Callers : pc[c] \in InRun => lock = c
  /\ lock # 0 => pc[lock] \in InRun

\* a caller waits at the lock while another one's workers are embedding
C5_Witness ==
  \E a, b \in Callers :
    /\ pc[a] = "map" /\ pc[b] = "acquire"
    /\ \E w \in WorkerIds : inv[a][w].st = "upd"

\* ======================================================= claims, client
InitErrors == {"init_closed", "init_crashed"}

\* C6: query retries the whole ensure, send and receive sequence once on a failure
\* in any of its steps, reading the response included, after terminating and
\* forgetting the handle; only a second consecutive failure reaches the caller.
C6_RaisesAfterSecondFailure ==
  \A t \in Threads : tpc[t] = "raised" => (fails[t] = 2 /\ attempt[t] = 1 /\ cSandbox = 0)

\* C7: query returns a reply only after it has read the sentinel line of the
\* exchange, never when the output stream ends without one.
C7_ReplyOnlyAfterSentinel ==
  \A t \in Threads : tpc[t] = "return" => sentinel[t]

\* C8: when the registry hands out a sandbox that has terminated, the attach path
\* reports failure (and _ensure_sandbox goes on to boot); the client never stores a
\* handle it saw terminated.
C8_DeadHandleNotStored ==
  impl = "core" =>
    /\ cSandbox \notin observedDead
    /\ \A t \in Threads :
         attachSaw[t] = "dead" =>
           /\ cSandbox = 0
           /\ tpc[t] = IF via[t] = "ensure" THEN "boot" ELSE "except"

\* _ensure_sandbox was handed a terminated sandbox and is about to create a new one
C8_Witness ==
  /\ impl = "core"
  /\ \E t \in Threads : via[t] = "ensure" /\ attachSaw[t] = "dead" /\ tpc[t] = "boot"
  /\ nameOwner = 0

\* C9: after create reported "already exists" the attach path runs once more: when
\* it is handed a live sandbox the client is connected to it and has created none,
\* otherwise the ensure call fails.
C9_RecoverAttachesOrFails ==
  \A t \in Threads :
    via[t] = "recover" =>
      IF attachSaw[t] = "live"
      THEN tpc[t] = "write" /\ cSandbox # 0 /\ cSandbox \notin created
      ELSE tpc[t] = "except" /\ cSandbox = 0

\* C10: a booted process whose stdout ends or fails before the start-up sentinel
\* makes the boot fail with an error carrying the captured stderr; the client never
\* goes on with that process as its sandbox and never writes a request to it.
C10_FailedBootNeverUsed ==
  impl = "core" =>
    /\ initFailed \cap written = {}
    /\ \A t \in Threads :
         /\ tpc[t] \in {"write", "read", "return"} => cSandbox \notin initFailed
         /\ (cSandbox \in initFailed /\ cLock = t) =>
              (tpc[t] = "except" /\ tErr[t].kind \in InitErrors /\ tErr[t].of = cSandbox)
         /\ (tErr[t].kind = "init_closed" /\ tErr[t].read) =>
              tErr[t].stderr = sbErr[tErr[t].of]

\* the start-up output of a booted process ended without the sentinel, and the
\* error in flight carries its traceback
C10_Witness ==
  /\ impl = "core"
  /\ \E t \in Threads :
       /\ tpc[t] = "except" /\ tErr[t].kind = "init_closed"
       /\ tErr[t].stderr = 1 /\ cSandbox \in initFailed

\* positions of query inside `with self._lock`
InQuery == {"ensure", "boot", "recover", "init", "write", "except", "read", "return", "raised"}

\* C11: at most one query call of a RagClient instance is inside its exchange: while
\* one call is between acquiring the lock and the end of its response read, no
\* other call writes a request or reads a response; the others wait at the lock.
C11_OneExchangeInFlight ==
  /\ \A a, b \in Threads : (tpc[a] \in InQuery /\ tpc[b] \in InQuery) => a = b
  /\ \A t \in Threads : tpc[t] \in InQuery => cLock = t
  /\ cLock # 0 => tpc[cLock] \in InQuery

\* one call has written its request and reads the response while another waits
C11_Witness ==
  \E a, b \in Threads :
    /\ tpc[a] = "read" /\ tpc[b] = "lock"
    /\ cSandbox # 0 /\ cSandbox \in written
    /\ reply[a] # <<>>

\* ============================================ claims, partial manifests
\* the documents that have an entry in some manifest-worker-*.json
InSomeWorkerFile == {d \in Docs : \E w \in WorkerIds : workerFile[w][d] # 0}
\* this step is finalize_index consuming the partial manifests
FinalizeStep == \E c \in Callers : pc[c] = "finalize" /\ pc'[c] # "finalize"

\* C12: once the entry of a completed document is in a partial-manifest file it
\* stays in some partial-manifest file until Finalize consumes it: no write of any
\* embed invocation removes it.
C12_EntriesStay ==
  [][~FinalizeStep => InSomeWorkerFile \subseteq InSomeWorkerFile']_vars

\* C13: during the Embed Phase the partial-manifest file of worker identity w holds
\* only documents of the batch given to the invocation with identity w (it is
\* written by that invocation alone).
C13_OwnFileOwnDocs ==
  \A c \in Callers :
    pc[c] = "map" => \A w \in WorkerIds : Keys(workerFile[w]) \subseteq BatchDocs(c, w)

\* ======================================================= claims, functions
\* C14: diff(old, current) returns as to_add the names of current absent from old or
\* with another fingerprint than in old, as to_delete the names of old absent from
\* current; a name in both with the same fingerprint is in neither set.
C14_DiffSets ==
  dOut.st = "diffed" =>
    \A n \in Docs :
      /\ n \in dOut.to_add <=>
           (dCur[n] # 0 /\ (dOut.old[n] = 0 \/ dOut.old[n] # dCur[n]))
      /\ n \in dOut.to_delete <=> (dOut.old[n] # 0 /\ dCur[n] = 0)
      /\ (dOut.old[n] # 0 /\ dOut.old[n] = dCur[n]) =>
           (n \notin dOut.to_add /\ n \notin dOut.to_delete)

\* old {a: f1, b: f2} and current {a: f1, c: f3} give to_add = {c}, to_delete = {b}
C14_Witness ==
  /\ dOut.st = "diffed" /\ ~dForce
  /\ dOld = [n \in Docs |-> IF n = 1 THEN 1 ELSE IF n = 2 THEN 2 ELSE 0]
  /\ dCur = [n \in Docs |-> IF n = 1 THEN 1 ELSE IF n = 3 THEN 3 ELSE 0]
  /\ dOut.to_add = {3} /\ dOut.to_delete = {2}

\* ========================================================= claims, scan
\* the manifest as a reader sees it: an entry, or 0 where there is none
ManifestEntry(d) == IF manifestFile.state = "ok" THEN manifestFile.map[d] ELSE 0
\* seq lists the elements of S in increasing order
IsSortedListOf(seq, S) ==
  /\ Len(seq) = Cardinality(S)
  /\ {seq[i] : i \in 1..Len(seq)} = S
  /\ \A i, j \in 1..Len(seq) : i < j => seq[i] < seq[j]
\* caller c has scanned and the manifest is still the one it scanned against
Scanned(c) ==
  \/ pc[c] \in {"embed", "map", "finalize"}
  \/ pc[c] = "return" /\ result[c].kind \in {"no_documents", "already_indexed"}

\* C15: a non-forced Scan returns, in sorted order, exactly the files whose
\* fingerprint differs from their manifest entry or that have no entry; a forced
\* Scan returns every file; a directory that does not exist yields the empty list.
C15_ScanResult ==
  \A c \in Callers :
    Scanned(c) =>
      /\ ~docsDir => files[c] = <<>>
      /\ (docsDir /\ force[c]) => IsSortedListOf(files[c], {d \in Docs : docs[d] # 0})
      /\ (docsDir /\ ~force[c]) =>
           IsSortedListOf(files[c], {d \in Docs : docs[d] # 0 /\ ManifestEntry(d) # docs[d]})

\* a non-forced scan that skipped an indexed file, took a file with a stale entry
\* and a file with no entry
C15_Witness ==
  \E c \in Callers :
    /\ pc[c] = "embed" /\ ~force[c] /\ Len(files[c]) = 2
    /\ \E d \in Docs : docs[d] # 0 /\ ManifestEntry(d) = docs[d]
    /\ \E d \in Docs : docs[d] # 0 /\ ManifestEntry(d) \notin {0, docs[d]}
    /\ \E d \in Docs : docs[d] # 0 /\ ManifestEntry(d) = 0

\* C16: when Scan yields no work, reindex returns "All documents already indexed"
\* exactly when the directory exists and holds at least one file that is in the
\* manifest, and "No documents found" otherwise; a missing directory and a directory
\* whose files are all indexed give two different messages.
C16_EmptyMessages ==
  \A c \in Callers :
    (Scanned(c) /\ files[c] = <<>>) =>
      /\ pc[c] = "return"
      /\ result[c].kind = "already_indexed" <=>
           (docsDir /\ \E d \in Docs : docs[d] # 0 /\ ManifestEntry(d) # 0)
      /\ result[c].kind = "no_documents" <=>
           ~(docsDir /\ \E d \in Docs : docs[d] # 0 /\ ManifestEntry(d) # 0)
      /\ ~docsDir => result[c].kind = "no_documents"
      /\ (docsDir /\ (\E d \in Docs : docs[d] # 0)
            /\ \A d \in Docs : docs[d] # 0 => ManifestEntry(d) = docs[d])
           => result[c].kind = "already_indexed"

\* a run over a directory whose files are all indexed returns the message
C16_Witness ==
  \E c \in Callers :
    /\ pc[c] = "return" /\ result[c].kind = "already_indexed" /\ ~force[c]
    /\ Cardinality({d \in Docs : docs[d] # 0}) >= 2

\* C17: overlaying partial manifests with pairwise disjoint key sets onto one
\* canonical manifest gives the same manifest in every order: each name has the
\* fingerprint of the one partial manifest that holds it, else the canonical one.
C17_MergeOrderFree ==
  mOut.st = "merged" =>
    /\ \A d \in Docs :
         mOut.map[d] = IF \E i \in Parts : mParts[i][d] # 0
                       THEN mParts[CHOOSE i \in Parts : mParts[i][d] # 0][d]
                       ELSE mBase[d]
    /\ \A o \in Orders : MergeInOrder(mBase, mParts, o, 1) = mOut.map

\* three non-empty disjoint partial manifests merged in reverse order over a
\* canonical manifest with a stale entry
C17_Witness ==
  /\ mOut.st = "merged"
  /\ \A i \in Parts : Keys(mParts[i]) # {}
  /\ mOrder = [i \in Parts |-> MaxParts + 1 - i]
  /\ \E d \in Docs : mBase[d] # 0 /\ mOut.map[d] # mBase[d]

\* ========================================================= claims, replies
\* positions i..j of t spell a marker [OUTPUT_FILE:p] with p = t[i+1..j-1]: p is
\* not empty, holds no newline, and ends at the first ] that can end it
IsMarker(t, i, j) ==
  /\ t[i] = "O" /\ t[j] = "C" /\ j > i + 1
  /\ \A k \in (i + 1)..(j - 1) : t[k] # "N"
  /\ \A k \in (i + 2)..(j - 1) : t[k] # "C"
MarkerPairs(t) == {p \in (1..Len(t)) \X (1..Len(t)) : IsMarker(t, p[1], p[2])}
\* the markers of t, read from the left: one that starts inside an earlier marker
\* is part of that marker's path
Markers(t) ==
  CHOOSE M \in SUBSET MarkerPairs(t) :
    \A p \in MarkerPairs(t) : p \in M <=> ~\E q \in M : q[1] < p[1] /\ p[1] <= q[2]
MarkerEnd(t, i) == (CHOOSE p \in Markers(t) : p[1] = i)[2]
\* the characters of t outside every marker, in order
Outside(t) ==
  LET ks == SortedSeq({k \in 1..Len(t) : ~\E p \in Markers(t) : p[1] <= k /\ k <= p[2]})
  IN [n \in 1..Len(ks) |-> t[ks[n]]]

\* C18: the client returns as file list the paths of all [OUTPUT_FILE:p] markers of
\* the reply in their order of appearance, and as display text the reply without
\* the markers, surrounding whitespace trimmed.
C18_OutputFiles ==
  rOut.st = "parsed" =>
    LET starts == SortedSeq({p[1] : p \in Markers(rText)})
    IN /\ Len(rOut.files) = Len(starts)
       /\ \A n \in 1..Len(starts) :
            rOut.files[n] = SubSeq(rText, starts[n] + 1, MarkerEnd(rText, starts[n]) - 1)
       /\ rOut.text = Strip(Outside(rText))

\* a reply with text, a newline and two markers with different paths
C18_Witness ==
  /\ rOut.st = "parsed"
  /\ Len(rOut.files) = 2 /\ rOut.files[1] # rOut.files[2]
  /\ rOut.text = <<"a">>
  /\ \E i \in 1..Len(rText) : rText[i] = "N"

\* ======================================================== claims, dispatch
ExactCommands ==
  {<<"status">>, <<"clear">>, <<"reindex">>, <<"reindex", " ", "--force">>, <<"reload">>}

\* C19: after trimming and case-folding, a message goes to the status, clear,
\* reindex or reload command only when it is exactly status, clear, reindex,
\* reindex --force or reload, with force only for reindex --force; every other
\* message is a query to the agent.
C19_ExactCommands ==
  hOut.cmd # "none" =>
    LET l == Lower(StripBlanks(hMsg))
    IN /\ hOut.cmd # "query" <=> l \in ExactCommands
       /\ l \in ExactCommands => hOut.cmd = l[1]
       /\ hOut.force <=> l = <<"reindex", " ", "--force">>

\* ================================================ claims, manifest loading
\* this step is the Scan Phase of caller c
ScanStep(c) == pc[c] = "scan" /\ pc'[c] # "scan"
Unreadable == manifestFile.state # "ok"

\* C20: loading the manifest never raises.  With a missing or unparsable manifest
\* file a non-forced Scan completes and returns every present document, the
\* empty-result check answers as for an empty manifest, and the Finalize merge
\* starts from the empty mapping: it persists a readable manifest that holds only
\* entries of partial manifests.
C20_LoadNeverRaises ==
  [][ /\ \A c \in Callers :
           (ScanStep(c) /\ Unreadable /\ ~force[c]) =>
             /\ pc'[c] \in {"embed", "return"}
             /\ IsSortedListOf(files'[c], IF docsDir THEN {d \in Docs : docs[d] # 0} ELSE {})
             /\ (pc'[c] = "return" => result'[c].kind = "no_documents")
      /\ (FinalizeStep /\ Unreadable) =>
             /\ manifestFile'.state = "ok"
             /\ Keys(manifestFile'.map) \subseteq InSomeWorkerFile
    ]_vars

\* a non-forced scan against an unparsable manifest whose bytes would have named a
\* present document with its current fingerprint: the document is scanned anyway
C20_Witness ==
  \E c \in Callers :
    /\ pc[c] = "embed" /\ ~force[c]
    /\ manifestFile.state = "corrupt"
    /\ \E d \in Docs : docs[d] # 0 /\ manifestFile.map[d] = docs[d]
                        /\ \E i \in 1..Len(files[c]) : files[c][i] = d

\* ================================================= claims, embed invocation
\* the documents the invocation of batch w completed before it stopped at document i
CompletedBefore(c, w) == {Batch(files[c], w)[j] : j \in 1..(inv[c][w].i - 1)}

\* C21: when processing document dk of an embed invocation raises, the invocation
\* raises to the caller without processing a later document, and the partial
\* manifest of its worker identity holds exactly the entries of d1..d(k-1), none
\* for dk.
C21_FailedInvocationManifest ==
  \A c \in Callers, w \in WorkerIds :
    (pc[c] = "map" /\ inv[c][w].st = "failed") =>
      /\ Keys(workerFile[w]) = CompletedBefore(c, w)
      /\ workerFile[w][CurDoc(c, w)] = 0

\* ====================================================== claims, Embed Phase
\* the Embed Phase of caller c has returned
Embedded(c) ==
  \/ pc[c] \in {"finalize", "reload"}
  \/ pc[c] = "return" /\ result[c].kind \in {"summary", "raised"}
\* the running status updates of the Embed Phase, in the order they were emitted
WorkerMsgs(c) == SelectSeq(status[c], LAMBDA x : x.kind = "worker_done")
\* the chunks of the documents of batch w
BatchChunks(c, w) == SumOver(BatchDocs(c, w), [d \in Docs |-> ChunkCount(d, docs[d])])

\* C23: a failed worker batch does not make the Embed Phase raise: every sibling
\* batch is collected, the success total is the sum of the chunk counts of exactly
\* the batches that returned normally, and the running total of the status updates
\* never decreases and ends at that sum.
C23_FailuresIsolated ==
  \A c \in Callers :
    Embedded(c) =>
      LET ms == WorkerMsgs(c)
      IN /\ \A w \in BatchIds(files[c]) : inv[c][w].st \in {"done", "failed"}
         /\ embedTotal[c] = SumOver(DoneBatches(c), [w \in WorkerIds |-> BatchChunks(c, w)])
         /\ Len(ms) = Cardinality(DoneBatches(c))
         /\ {ms[i].wid : i \in 1..Len(ms)} = DoneBatches(c)
         /\ \A i \in 1..Len(ms) : ms[i].count = BatchChunks(c, ms[i].wid)
         /\ \A i, j \in 1..Len(ms) : i < j => ms[i].total <= ms[j].total
         /\ Len(ms) > 0 => ms[Len(ms)].total = embedTotal[c]
         /\ result[c].kind = "raised" => status[c][Len(status[c])].kind = "reloading"

\* a run that went on to Finalize with one batch failed after it had embedded a
\* document, and another batch done
C23_Witness ==
  \E c \in Callers :
    /\ pc[c] = "finalize"
    /\ \E w \in WorkerIds : inv[c][w].st = "failed" /\ inv[c][w].total > 0
    /\ \E w \in WorkerIds : inv[c][w].st = "done" /\ inv[c][w].total > 0

\* the texts the caller of reindex gets that speak of a failed batch
FailureTexts(c) == {i \in 1..Len(status[c]) : status[c][i].kind = "worker_failed"}

\* C24: every failure of a worker batch is surfaced to the caller of reindex as
\* visible status text, through the status callback or in the returned summary.
C24_FailuresVisible ==
  \A c \in Callers :
    (pc[c] = "return" /\ result[c].kind = "summary" /\ FailedBatches(c) # {}) =>
      \/ Cardinality(FailureTexts(c)) >= Cardinality(FailedBatches(c))
      \/ result[c].kind = "summary_with_failures"

\* ========================================================= claims, batching
RECURSIVE Flatten(_)
Flatten(seqs) == IF seqs = <<>> THEN <<>> ELSE Head(seqs) \o Flatten(Tail(seqs))
\* the least q with q * n >= total
CeilDiv(total, n) == CHOOSE q \in 0..total : q * n >= total /\ \A r \in 0..total : r * n >= total => q <= r

\* C22: for a non-empty list of length total and N workers the Embed Phase makes k
\* batches, 1 <= k <= N, each a non-empty contiguous slice of at most ceil(total/N)
\* documents, whose concatenation in order is the input list, tagged with the
\* worker identities 0..k-1.
C22_Batches ==
  bOut.st = "made" =>
    LET k == Len(bOut.batches)
    IN /\ 1 <= k /\ k <= bN
       /\ \A b \in 1..k : /\ Len(bOut.batches[b]) >= 1
                          /\ Len(bOut.batches[b]) <= CeilDiv(Len(bFiles), bN)
       /\ Flatten(bOut.batches) = bFiles
       /\ bOut.ids = [b \in 1..k |-> b - 1]

\* fewer batches than workers, the last one shorter than the others
C22_Witness ==
  /\ bOut.st = "made"
  /\ Len(bOut.batches) >= 3
  /\ Len(bOut.batches) < bN
  /\ Len(bOut.batches[Len(bOut.batches)]) < Len(bOut.batches[1])

\* =================================================== claims, worker guards
Embedding == {s \in Slots : slotPc[s] = "embedding"}
Upserting == {s \in Slots : slotPc[s] = "upserting"}

\* C25: within one EmbedWorker instance at most one invocation is inside the
\* embedding-model call and at most one inside the store-upsert call at any time;
\* the guards are distinct and no invocation holds both at once.
C25_GuardsExclusive ==
  /\ Cardinality(Embedding) <= 1
  /\ Cardinality(Upserting) <= 1
  /\ \A s \in Slots : ~(gpuLock = s /\ chromaLock = s)
  /\ \A s \in Embedding : gpuLock = s
  /\ \A s \in Upserting : chromaLock = s

\* one invocation embeds while another upserts and two more wait, one for each guard
C25_Witness ==
  /\ Embedding # {} /\ Upserting # {}
  /\ \E s \in Slots : slotPc[s] = "gpu_wait"
  /\ \E s \in Slots : slotPc[s] = "upsert_wait"

\* ========================================================= claims, Finalize
\* the caller whose Finalize this step is was called with force
ForcedFinalize == \E c \in Callers : pc[c] = "finalize" /\ force[c]
\* what the merge step finds when it starts: after the deletions of a forced run
CanonicalAtMerge ==
  IF ForcedFinalize \/ manifestFile.state # "ok" THEN Empty ELSE manifestFile.map
PartsAtMerge == IF ForcedFinalize THEN [w \in WorkerIds |-> Empty] ELSE workerFile
Holders(d) == {w \in WorkerIds : PartsAtMerge[w][d] # 0}

\* C26: after Finalize the persisted canonical manifest is the canonical manifest
\* the merge found, overlaid with the entries of every partial-manifest file that
\* existed when the merge started, and no partial-manifest file remains.
C26_FinalizeMerges ==
  [][FinalizeStep =>
       /\ manifestFile'.state = "ok"
       /\ \A d \in Docs :
            IF Holders(d) = {}
            THEN manifestFile'.map[d] = CanonicalAtMerge[d]
            ELSE manifestFile'.map[d] \in {PartsAtMerge[w][d] : w \in Holders(d)}
       /\ \A w \in WorkerIds : workerFile'[w] = Empty
    ]_vars

\* a non-forced Finalize has returned: the manifest keeps an entry of the previous
\* canonical manifest and has entries of two partial manifests
C26_Witness ==
  \E c \in Callers :
    /\ pc[c] = "return" /\ result[c].kind = "summary" /\ ~force[c]
    /\ DoneBatches(c) = WorkerIds
    /\ \E d \in Docs : manifestFile.map[d] # 0 /\ d \notin {files[c][i] : i \in 1..Len(files[c])}
    /\ \A i \in 1..Len(files[c]) : manifestFile.map[files[c][i]] = docs[files[c][i]]
    /\ \A w \in WorkerIds : workerFile[w] = Empty

\* C27: on a forced Finalize the collection is dropped and the canonical manifest
\* and every partial-manifest file are deleted before the merge reads a manifest:
\* the merge finds nothing, whatever the files held.  A collection that is already
\* absent does not make Finalize fail.
C27_ResetBeforeMerge ==
  [][(FinalizeStep /\ ForcedFinalize) =>
       /\ manifestFile' = [state |-> "ok", map |-> Empty]
       /\ coll' = [exists |-> FALSE, chunks |-> {}]
       /\ \A w \in WorkerIds : workerFile'[w] = Empty
       /\ \A c \in Callers :
            pc[c] = "finalize" =>
              /\ pc'[c] \in {"reload", "return"}
              /\ result'[c] = [kind |-> "summary", chunks |-> 0, files |-> 0]
    ]_vars

\* a forced Finalize has returned after its workers had embedded chunks and
\* recorded documents, over a canonical manifest that had entries
C27_Witness ==
  \E c \in Callers :
    /\ pc[c] = "return" /\ force[c] /\ result[c].kind = "summary"
    /\ embedTotal[c] > 0 /\ DoneBatches(c) # {}
    /\ manifestFile.map = Empty /\ ~coll.exists

\* ===================================================== claims, run phases
\* the phase of the run a position of reindex belongs to
Phase(p) ==
  CASE p \in {"idle", "acquire", "return"} -> "idle"
    [] p = "scan" -> "scanning"
    [] p \in {"embed", "map"} -> "embedding"
    [] p = "finalize" -> "finalizing"
    [] p = "reload" -> "reloading"
PhaseOrder ==
  {<<"idle", "scanning">>, <<"scanning", "embedding">>, <<"scanning", "idle">>,
   <<"embedding", "finalizing">>, <<"finalizing", "reloading">>,
   <<"finalizing", "idle">>, <<"reloading", "idle">>}
Reloads(c) == {i \in 1..Len(status[c]) : status[c][i].kind = "reloading"}

\* C28: a reindex run passes through its phases only in the order idle, scanning,
\* embedding, finalizing, optionally reloading, idle; Finalize starts only after
\* every dispatched worker invocation has returned or failed; the reload callback
\* is invoked at most once, and only after Finalize has returned.
C28_PhaseOrder ==
  [][\A c \in Callers :
       /\ Phase(pc'[c]) # Phase(pc[c]) => <<Phase(pc[c]), Phase(pc'[c])>> \in PhaseOrder
       /\ Phase(pc'[c]) \in {"finalizing", "reloading"} =>
            /\ \A w \in BatchIds(files'[c]) : inv'[c][w].st \in {"done", "failed"}
            /\ \A w \in WorkerIds \ BatchIds(files'[c]) : inv'[c][w].st = "none"
       /\ Cardinality(Reloads(c)') <= 1
       /\ ~(Reloads(c)' \subseteq Reloads(c)) => pc[c] = "reload" /\ result[c].kind = "summary"
    ]_vars

\* a run that went through every phase, reload included, with a failed batch
C28_Witness ==
  \E c \in Callers :
    /\ pc[c] = "return" /\ result[c].kind = "summary"
    /\ Cardinality(Reloads(c)) = 1
    /\ FailedBatches(c) # {} /\ DoneBatches(c) # {}

\* ================================================ claims, empty work list
EmptyKinds == {"no_documents", "already_indexed"}

\* C30: when Scan returns an empty work list, with force or without, reindex
\* dispatches no worker, runs no Finalize and calls no reload: it returns its
\* message, and the canonical manifest, the partial-manifest files and the Chunk
\* Store are as they were.
C30_NoWorkNoEffect ==
  [][\A c \in Callers :
       /\ (ScanStep(c) /\ files'[c] = <<>>) =>
            /\ pc'[c] = "return"
            /\ result'[c].kind \in EmptyKinds
            /\ inv'[c] = NoInvs
            /\ Len(status'[c]) = 1 /\ status'[c][1].kind = "scanning"
            /\ UNCHANGED <<manifestFile, workerFile, coll>>
       /\ (pc[c] = "return" /\ result[c].kind \in EmptyKinds /\ pc'[c] # pc[c]) =>
            /\ pc'[c] = "idle"
            /\ UNCHANGED <<manifestFile, workerFile, coll>>
    ]_vars

\* a forced run over a directory without files, with a canonical manifest that has
\* entries: it returned without touching the manifest
C30_Witness ==
  \E c \in Callers :
    /\ pc[c] = "return" /\ force[c] /\ files[c] = <<>>
    /\ result[c].kind \in EmptyKinds
    /\ docsDir
    /\ manifestFile.state = "ok" /\ manifestFile.map # Empty

\* ================================================== claims, failed runs
\* C29: an exception of the reload callback, or of a phase, propagates out of
\* reindex: the run goes straight to its exit and the caller gets the exception;
\* the single-flight lock is released on every exit path, so a call made after a
\* failed run is not blocked forever.
C29_RaiseReleasesLock ==
  /\ [][\A c \in Callers :
          /\ (result'[c].kind = "raised" /\ result[c].kind # "raised") => pc'[c] = "return"
          /\ (pc[c] = "return" /\ pc'[c] # "return") => pc'[c] = "idle" /\ lock' = 0
       ]_vars
  /\ [](\A c \in Callers : lock = c => pc[c] \in InRun)
  /\ \A c \in Callers : (pc[c] = "acquire") ~> (pc[c] = "scan")

\* a call waits for the lock while the run that holds it is leaving by an
\* exception of the reload callback
C29_Witness ==
  \E c, b \in Callers :
    /\ pc[c] = "return" /\ result[c].kind = "raised" /\ lock = c
    /\ Cardinality(Reloads(c)) = 1
    /\ pc[b] = "acquire"

\* ================================================ claims, sandbox lifecycle
\* thread t makes an attach attempt (from_name) in this step
Attaches(t) == tpc[t] \in {"ensure", "recover"} /\ via'[t] \in {"ensure", "recover"}
\* the client creates a sandbox in this step
Creates == created' # created

\* C31: RagClient creates a process only when it holds no handle and the attach
\* attempt of the same ensure call has just failed to yield a live process; while
\* it holds a handle, a query reuses it with neither attach nor create.
C31_LazyCreateReuse ==
  [][\A t \in Threads :
       /\ (Creates /\ tpc[t] = "boot") =>
            /\ cSandbox = 0
            /\ via[t] = "ensure"
            /\ attachSaw[t] \in {"notfound", "dead"}
       /\ (tpc[t] = "ensure" /\ cSandbox # 0 /\ tpc'[t] # "ensure") =>
            /\ tpc'[t] = "write"
            /\ ~Attaches(t) /\ ~Creates
            /\ UNCHANGED <<cSandbox, cStdout, sbState>>
    ]_vars

\* a second query is about to write to the handle the first one wrote to, without
\* an attach
C31_Witness ==
  \E t \in Threads :
    /\ tpc[t] = "write" /\ attempt[t] = 0 /\ via[t] = "none"
    /\ queries = 2
    /\ cSandbox # 0 /\ cSandbox \in written /\ cSandbox \in created

\* C33: when query leaves after an exchange in which the output stream ended before
\* the sentinel, or in which sending or receiving raised, the client has terminated
\* and forgotten the handle: is_running() is False and the next query attaches or
\* boots anew.
C33_FaultForgetsHandle ==
  \A t \in Threads :
    (tpc[t] \in {"return", "raised"} /\ (~sentinel[t] \/ tErr[t].kind # "none"))
      => (~HandleHeld /\ cStdout = 0)

\* the serving process has not yet finished request r
Pending(r) == \E s \in Sandboxes : \E i \in 1..Len(sbIn[s]) : sbIn[s][i] = r
\* C36: a reply returned by query(m) is exactly the output the serving process
\* produced for request m: no line of it is start-up output or output of another
\* request, and the sentinel that ended it is the one printed after request m.
C36_ReplyIsOwnOutput ==
  \A t \in Threads :
    (tpc[t] = "return" /\ sentinel[t]) =>
      /\ \A i \in 1..Len(reply[t]) : reply[t][i].rq = req[t]
      /\ ~Pending(req[t])

\* ============================================ claims, manifest and chunk store
NoRun == lock = 0 /\ \A c \in Callers : pc[c] \in {"idle", "acquire"}
\* every chunk of some version of document d is in the collection
AllChunksOf(d) ==
  \E v \in 1..MaxFp : ChunkIds(d, v, ChunkCount(d, v)) \subseteq coll.chunks
\* C34: whenever no run is in progress, every document name that is a key of the
\* canonical manifest has had all of its chunks upserted into the collection.
C34_ManifestKeysHaveChunks ==
  NoRun => \A d \in Keys(LoadManifest) : AllChunksOf(d)
\* a run has ended with one batch recorded and one failed after a partial upsert
C34_Witness ==
  /\ NoRun
  /\ Keys(LoadManifest) # {}
  /\ \E d \in PresentDocs : LoadManifest[d] = 0 /\ coll.chunks \cap ChunkIds(d, docs[d], 2) # {}

\* C35: the fingerprint recorded in the manifest for a document is the fingerprint
\* of the version that the run embedded, so a document modified during a run, after
\* it was parsed, differs from its manifest entry and the next non-forced Scan
\* returns it.
C35_RecordedVersionIsEmbedded ==
  NoRun => \A d \in Keys(LoadManifest) :
             ChunkIds(d, LoadManifest[d], ChunkCount(d, LoadManifest[d])) \subseteq coll.chunks

\* ===================================================== claims, serving process
Ends(j) == {i \in 1..Len(vOut) : vOut[i].end /\ vOut[i].rq = j}
OutputOf(j) == {i \in 1..Len(vOut) : vOut[i].rq = j}
\* C32: the serving process prints the sentinel exactly once after start-up and
\* before it reads the first line, then exactly one sentinel per non-blank line
\* read, after everything printed for that line, also when parsing or handling
\* raises; a blank line prints nothing.
C32_OneSentinelPerRequest ==
  /\ (vPc = "start") => (vPos = 0 /\ vOut = <<>>)
  /\ (vPc \in {"loop", "eof"}) => Cardinality(Ends(0)) = 1
  /\ \A i \in 1..Len(vOut) : vOut[i].rq \in 0..vPos
  /\ \A i \in 1..Len(vOut), k \in 1..Len(vOut) : i < k => vOut[i].rq <= vOut[k].rq
  /\ \A j \in 0..vPos : \A e \in Ends(j) : \A i \in OutputOf(j) : i <= e
  /\ \A j \in 1..vPos :
       IF vIn[j] = "blank" THEN OutputOf(j) = {} ELSE Cardinality(Ends(j)) = 1
\* a blank line, a line that fails to parse and one whose handling raises were all read
C32_Witness ==
  /\ vPc = "eof" /\ vPos = 3
  /\ vIn = <<"blank", "parse_error", "handle_error">>
  /\ Cardinality({i \in 1..Len(vOut) : vOut[i].end}) = 3
  /\ Cardinality(OutputOf(3)) = 3

\* ===================================================== claims, lock order
RtWaiting == {t \in Routed : rtPc[t] \in {"r_lock", "q_lock", "rq_lock"}}
RtCanStep(t) ==
  CASE rtPc[t] = "r_lock" -> ipLock = 0
    [] rtPc[t] \in {"q_lock", "rq_lock"} -> rcLock = 0
    [] OTHER -> rtPc[t] # "idle"
\* C37: the pipeline lock and the client lock cannot deadlock: the client lock is
\* requested under the pipeline lock only by the reload callback, the pipeline lock
\* is never requested under the client lock, no holder requests its own lock again,
\* and whenever a call is waiting some call can take a step.
C37_NoDeadlock ==
  /\ \A t \in Routed :
       /\ (ipLock = t /\ rtPc[t] \in {"q_lock", "rq_lock"}) => rtPc[t] = "rq_lock"
       /\ rcLock = t => rtPc[t] \notin {"r_lock", "q_lock", "rq_lock"}
       /\ ipLock = t => rtPc[t] # "r_lock"
       /\ rtPc[t] = "q_lock" => ipLock # t
  /\ RtWaiting # {} => \E u \in Routed : RtCanStep(u)
\* a reload holds both locks while a query and a reindex wait
C37_Witness ==
  \E a, b, c \in Routed :
    /\ rtPc[a] = "rq_run" /\ ipLock = a /\ rcLock = a
    /\ rtPc[b] = "q_lock"
    /\ rtPc[c] = "r_lock"

\* ===================================================== claims, Indexer.build
\* C38: after build returns normally the persisted manifest equals the scanned
\* document set in full and the collection holds no chunk whose source is absent
\* from the directory, also when every document has been removed.
C38_BuildReconciles ==
  xRet = "returned" =>
    /\ xManifest = xDir
    /\ \A p \in xStore : xDir[p[1]] # 0

\* C39: after build raised part-way the persisted manifest lists no document whose
\* chunks are missing from the collection.
C39_RaiseKeepsManifestBacked ==
  xRet = "raised" => \A d \in Keys(xManifest) : <<d, xManifest[d]>> \in xStore

\* ===================================================== claims, archives
\* the positions of the entries that are files with non-blank extracted text
KeptEntries == SortedSeq({i \in 1..Len(zEntries) : zEntries[i] = "text"})
\* C40: parsing an archive yields batches of at most the batch size; the entries
\* that are files with non-blank extracted text appear exactly once each, in
\* archive order; directories, failed extractions and blank texts are left out
\* without ending the parse; only the last batch may be partially filled.
C40_ZipBatches ==
  zOut.st = "done" =>
    /\ Flatten(zOut.batches) = KeptEntries
    /\ \A b \in 1..Len(zOut.batches) :
         /\ Len(zOut.batches[b]) \in 1..zN
         /\ b < Len(zOut.batches) => Len(zOut.batches[b]) = zN
\* a full batch and a partial last one, around a directory, a failed and a blank entry
C40_Witness ==
  /\ zOut.st = "done" /\ zN = 2
  /\ zEntries = <<"dir", "text", "fail", "text", "blank", "text">>
  /\ zOut.batches = <<<<2, 4>>, <<6>>>>
====
